---- MODULE Spec2Model ----
(***************************************************************************)
(* Search Analytics Node: the authorization broker (lib/credentials.py),   *)
(* the process tree supervisor (lib/process.py), the URL inspection        *)
(* dispatcher (search.py, UrlInspection.execute), the paginated fetcher    *)
(* (search.py, SearchQuery.execute), the free port search, the license     *)
(* gate of the authenticator (lib/key_management.py), the persisted port   *)
(* object (search.py, SearchAuthPortObject) and the parsing of a response  *)
(* page (search.py, SearchQuery.parse_response).                           *)
(***************************************************************************)
EXTENDS Integers, Sequences, FiniteSets, TLC

VARIABLES
    \* ---- lib/credentials.py: create_new, the parent side
    pc,             \* position of the parent inside create_new
    canceled,       \* exec_context.is_canceled()
    result,         \* outcome of create_new: a record with a field kind
    tree,           \* terminate_tree: the snapshot [parent, *children], a sequence of pids
    alive,          \* terminate_tree: the processes wait_procs reported alive
    lastPoll,       \* what the latest pass of the poll loop observed
    terminateCalls, \* pids terminate_tree was invoked on, in order
    queueReads,     \* number of queue.get calls of the parent
    readLog,        \* number of values the pipe held at each queue.get
    \* ---- lib/credentials.py: _run_local_server, the worker side
    wpc,            \* position of the worker process
    feeder,         \* values put on the Queue, still in the worker's feeder buffer
    pipe,           \* values written to the Queue's pipe, readable by the parent
    exitcode,       \* childProcess.exitcode: {} is None, {c} is exit code c
    logged,         \* the worker logged an exception (logger.error)
    \* ---- the operating system's processes
    pstat,          \* pid -> "absent" | "running" | "gone"
    ppid,           \* pid -> parent pid (0: none of the modelled processes)
    sig,            \* pid -> signal pending for the process: "none" | "term" | "kill"
    \* ---- search.py: UrlInspection.execute
    dpc,            \* position of the dispatcher's main thread
    is_pro,         \* auth_port_object.get_is_pro()
    items,          \* inspection_url_series, the input URLs in order
    fstate,         \* item index -> state of its future
    rows,           \* the rows built so far
    dcanceled,      \* exec_context.is_canceled() during the dispatch
    dresult,        \* outcome of execute: a record with a field kind
    lateStarts,     \* invocations started after the main thread left the loop
    outOfOrder,     \* a call completed while the call of an earlier item had not
    dprogress,      \* the progress reports of the dispatcher, [num, den]
    invoked,        \* the item of every call of inspect_one, in order
    \* ---- search.py: SearchQuery.execute
    fpc,            \* position of the fetcher
    portCreds,      \* auth_port_object.get_credentials(), as parse_json reads it
    clock,          \* the clock at the time the fetcher parses the credentials
    row_limit,      \* self.advanced.row_limit, the requested cap
    user_row_limit, \* the effective cap
    fi,             \* i, the index of the page
    frows,          \* rows, as segments [page, n]: the first n rows of a page
    pages,          \* len(new_rows) of every page received, in order
    requests,       \* startRow of every page request issued, in order
    bodies,         \* [rowLimit, startRow] of the body of every page request
    progress,       \* the progress reports, as fractions [num, den]
    sleeps,         \* the delays slept between pages, in tenths of a second
    warnings,       \* number of exec_context.set_warning calls
    fresult,        \* outcome of execute: a record with a field kind
    \* ---- lib/credentials.py: _get_free_port
    gpc,            \* position of the port search
    probes,         \* number of ports probed
    lastPort,       \* the port probed last (0: none yet)
    freeSeen,       \* a probed port was found free
    portResult,     \* outcome of _get_free_port: a record with a field kind
    \* ---- search.py: SearchAuthenticator.execute, lib/key_management.py
    apc,            \* position of the authenticator
    key,            \* self.key, a sequence of characters
    expiration,     \* self.expiration
    auth_is_pro,    \* the local is_pro of execute
    licenseRequests,\* the key parameter of every request sent to the license endpoint
    licenseReply,   \* what the latest request to the license endpoint came back with
    aresult,        \* outcome of execute: a record with a field kind
    \* ---- search.py: SearchAuthPortObject.serialize, deserialize
    spc,            \* "object": in memory, "stored": serialized, "loaded": deserialized
    portObject,     \* the port object that is saved
    storage,        \* the bytes saved with the workflow
    loaded,         \* outcome of deserialize: a record with a field kind
    \* ---- search.py: SearchQuery.parse_response
    rpc,            \* position of parse_response
    dimension,      \* self.dimension, the set of the dimensions switched on
    response,       \* api_response, the response of the endpoint, a dict
    new_rows,       \* the rows built so far
    presult         \* outcome of parse_response: a record with a field kind

brokerVars == <<pc, canceled, result, tree, alive, lastPoll, terminateCalls, queueReads, readLog,
                wpc, feeder, pipe, exitcode, logged, pstat, ppid, sig>>
dispatchVars == <<dpc, is_pro, items, fstate, rows, dcanceled, dresult, lateStarts,
                   outOfOrder, dprogress, invoked>>
fetchVars == <<fpc, portCreds, clock, row_limit, user_row_limit, fi, frows, pages, requests,
               bodies, progress, sleeps, warnings, fresult>>
portVars == <<gpc, probes, lastPort, freeSeen, portResult>>
authVars == <<apc, key, expiration, auth_is_pro, licenseRequests, licenseReply, aresult>>
storeVars == <<spc, portObject, storage, loaded>>
responseVars == <<rpc, dimension, response, new_rows, presult>>
vars == <<brokerVars, dispatchVars, fetchVars, portVars, authVars, storeVars, responseVars>>
\* what the steps of one component leave alone
outsideBroker == <<dispatchVars, fetchVars, portVars, authVars, storeVars, responseVars>>
outsideDispatch == <<brokerVars, fetchVars, portVars, authVars, storeVars, responseVars>>

----------------------------------------------------------------------------
\* Bounds of the model

\* number of modelled process ids: the worker and its descendants
MaxProcs == 3
\* longest input table of the dispatcher in DispatchSpec
MaxItems == 4
\* surplus of items over the entitled pool size in PoolSpec
PoolSurplus == 1

----------------------------------------------------------------------------
\* Processes

Pids == 1..MaxProcs
\* childProcess.pid
WorkerPid == 1

\* the largest element of a non-empty set of integers
Max(S) == CHOOSE x \in S : \A y \in S : y <= x
Min(S) == CHOOSE x \in S : \A y \in S : x <= y

\* psutil.Process.children(recursive=True): the running processes whose chain of
\* parent pids leads to root
RECURSIVE Descendants(_, _)
Descendants(roots, fuel) ==
    IF fuel = 0 THEN {}
    ELSE LET kids == {p \in Pids : pstat[p] = "running" /\ ppid[p] \in roots}
         IN  IF kids = {} THEN {} ELSE kids \cup Descendants(kids, fuel - 1)

\* a set of pids as a sequence in increasing order
RECURSIVE SeqOf(_)
SeqOf(S) == IF S = {} THEN <<>> ELSE <<Min(S)>> \o SeqOf(S \ {Min(S)})

Range(s) == {s[i] : i \in DOMAIN s}

----------------------------------------------------------------------------
\* lib/credentials.py

\* the credentials the authorization flow can hand out: a refresh token or
\* none, and an expiry in whole hours after the time of issue
FlowCredentials == [has_refresh : BOOLEAN, expiry : {1}]

\* parse_json(credentials_json) at time now: without a refresh_token member
\* the credentials must not have expired, and info["refresh_token"] = "" is
\* set, so that the Credentials object always holds a refresh token, a real
\* one or the empty string
parse_jsonAtExpiry(info, now) ==
    IF ~info.has_refresh /\ info.expiry - now < 0
    THEN [kind |-> "PermissionError"]
    ELSE [kind |-> "Credentials",
          refresh_token |-> IF info.has_refresh THEN "token" ELSE "",
          expiry |-> info.expiry]

parse_json(info, now) ==
    IF ~info.has_refresh /\ info.expiry - now <= 0
    THEN [kind |-> "PermissionError"]
    ELSE [kind |-> "Credentials",
          refresh_token |-> IF info.has_refresh THEN "token" ELSE "",
          expiry |-> info.expiry]

\* a process leaves: its children are re-parented away from it
Reparented(p) == [q \in Pids |-> IF ppid[q] = p THEN 0 ELSE ppid[q]]

\* create_new, up to the construction of the child Process object
CreateNew ==
    /\ pc = "idle"
    /\ pc' = "start"
    /\ UNCHANGED <<canceled, result, tree, alive, lastPoll, terminateCalls, queueReads, readLog,
                   wpc, feeder, pipe, exitcode, logged, pstat, ppid, sig>>

\* childProcess.start()
StartProcess ==
    /\ pc = "start"
    /\ pc' = "poll"
    /\ pstat' = [pstat EXCEPT ![WorkerPid] = "running"]
    /\ wpc' = "flow"
    /\ UNCHANGED <<canceled, result, tree, alive, lastPoll, terminateCalls, queueReads, readLog,
                   feeder, pipe, exitcode, logged, ppid, sig>>

\* childProcess.is_alive()
is_alive == pstat[WorkerPid] = "running"

\* one pass of the body of the while loop: where the parent goes next
\* (faulty variants: the liveness test placed before the cancellation test;
\* no cancellation test)
PollBranchNoCancelTest(isCanceled, isAlive) ==
    IF ~isAlive THEN "join" ELSE "sleep"
PollBranchAliveFirst(isCanceled, isAlive) ==
    IF ~isAlive THEN "join"
    ELSE IF isCanceled THEN "terminate"
    ELSE "sleep"
PollBranch(isCanceled, isAlive) ==
    IF isCanceled THEN "terminate"
    ELSE IF ~isAlive THEN "join"
    ELSE "sleep"

\* the while loop of create_new: cancellation first, then the liveness test;
\* on cancellation terminate_tree is called (childProcess.pid is set by start)
Poll ==
    /\ pc = "poll"
    /\ pc' = PollBranch(canceled, is_alive)
    /\ lastPoll' = [canceled |-> canceled, alive |-> is_alive]
    /\ UNCHANGED <<canceled, result, tree, alive, terminateCalls, queueReads, readLog,
                   wpc, feeder, pipe, exitcode, logged, pstat, ppid, sig>>

\* time.sleep(0.5)
Sleep ==
    /\ pc = "sleep"
    /\ pc' = "poll"
    /\ UNCHANGED <<canceled, result, tree, alive, lastPoll, terminateCalls, queueReads, readLog,
                   wpc, feeder, pipe, exitcode, logged, pstat, ppid, sig>>

\* the outcome of the exit code test after childProcess.join()
\* (faulty variants: no exit code test; the failure recorded without raising;
\* the tree of a failed worker reaped with terminate_tree)
ExitCodeCheckMissing(code) == [pc |-> "read", result |-> result]
ExitCodeCheckReaps(code) ==
    IF code # {0}
    THEN [pc |-> "terminate", result |-> result]
    ELSE [pc |-> "read", result |-> result]
ExitCodeCheckContinues(code) ==
    IF code # {0}
    THEN [pc |-> "read", result |-> [kind |-> "WorkerFailed", exit_code |-> code]]
    ELSE [pc |-> "read", result |-> result]
ExitCodeCheck(code) ==
    IF code # {0}
    THEN [pc |-> "done", result |-> [kind |-> "WorkerFailed", exit_code |-> code]]
    ELSE [pc |-> "read", result |-> result]

\* childProcess.join() and the exit code test
JoinAndCheck ==
    /\ pc = "join"
    /\ pstat[WorkerPid] = "gone"
    /\ pc' = ExitCodeCheck(exitcode).pc
    /\ result' = ExitCodeCheck(exitcode).result
    /\ UNCHANGED <<canceled, tree, alive, lastPoll, terminateCalls, queueReads, readLog,
                   wpc, feeder, pipe, exitcode, logged, pstat, ppid, sig>>

\* return parse_json(queue.get(block=False))
ReadQueue ==
    /\ pc = "read"
    /\ pc' = "done"
    /\ queueReads' = queueReads + 1
    /\ readLog' = Append(readLog, Len(pipe))
    /\ IF pipe = <<>>
       THEN /\ result' = [kind |-> "QueueEmpty"]
            /\ pipe' = pipe
       ELSE /\ pipe' = Tail(pipe)
            /\ result' = LET c == parse_json(Head(pipe), 0)
                         IN  IF c.kind = "Credentials"
                             THEN [kind |-> "Succeeded", bundle |-> c]
                             ELSE [kind |-> "AuthExpired"]
    /\ UNCHANGED <<canceled, tree, alive, lastPoll, terminateCalls,
                   wpc, feeder, exitcode, logged, pstat, ppid, sig>>

\* raise RuntimeError("Execution was canceled.") after terminate_tree returned
RaiseCanceled ==
    /\ pc = "tt_done"
    /\ pc' = "done"
    /\ result' = [kind |-> "Canceled"]
    /\ UNCHANGED <<canceled, tree, alive, lastPoll, terminateCalls, queueReads, readLog,
                   wpc, feeder, pipe, exitcode, logged, pstat, ppid, sig>>

\* exec_context.is_canceled() turns true: the user cancels the node
SetCanceled ==
    /\ pc # "done"
    /\ ~canceled
    /\ canceled' = TRUE
    /\ UNCHANGED <<pc, result, tree, alive, lastPoll, terminateCalls, queueReads, readLog,
                   wpc, feeder, pipe, exitcode, logged, pstat, ppid, sig>>

----------------------------------------------------------------------------
\* lib/credentials.py: _run_local_server, in the worker process

\* flow.run_local_server returned credentials; queue.put(credentials.to_json())
\* hands the value to the queue's feeder
WorkerPut ==
    /\ wpc = "flow"
    /\ pstat[WorkerPid] = "running"
    /\ \E c \in FlowCredentials : feeder' = Append(feeder, c)
    /\ wpc' = "close"
    /\ UNCHANGED <<pc, canceled, result, tree, alive, lastPoll, terminateCalls, queueReads, readLog,
                   pipe, exitcode, logged, pstat, ppid, sig>>

\* the queue's feeder writes the buffered values to the pipe
FeederFlush ==
    /\ pstat[WorkerPid] = "running"
    /\ feeder # <<>>
    /\ pipe' = pipe \o feeder
    /\ feeder' = <<>>
    /\ UNCHANGED <<pc, canceled, result, tree, alive, lastPoll, terminateCalls, queueReads, readLog,
                   wpc, exitcode, logged, pstat, ppid, sig>>

\* queue.close() and the return of _run_local_server: the process exits with
\* code 0 once the feeder has been joined
\* (faulty variant: the process exits without joining the feeder)
WorkerReturnNoJoin ==
    /\ wpc = "close"
    /\ pstat[WorkerPid] = "running"
    /\ wpc' = "exited"
    /\ exitcode' = {0}
    /\ pstat' = [pstat EXCEPT ![WorkerPid] = "gone"]
    /\ ppid' = Reparented(WorkerPid)
    /\ UNCHANGED <<pc, canceled, result, tree, alive, lastPoll, terminateCalls, queueReads,
                   readLog, feeder, pipe, logged, sig>>
WorkerReturn ==
    /\ wpc = "close"
    /\ pstat[WorkerPid] = "running"
    /\ feeder = <<>>
    /\ wpc' = "exited"
    /\ exitcode' = {0}
    /\ pstat' = [pstat EXCEPT ![WorkerPid] = "gone"]
    /\ ppid' = Reparented(WorkerPid)
    /\ UNCHANGED <<pc, canceled, result, tree, alive, lastPoll, terminateCalls, queueReads, readLog,
                   feeder, pipe, logged, sig>>

\* _get_free_port or flow.run_local_server raised: the exception is logged and
\* raised again, the process exits with code 1
WorkerRaise ==
    /\ wpc = "flow"
    /\ pstat[WorkerPid] = "running"
    /\ logged' = TRUE
    /\ wpc' = "exited"
    /\ exitcode' = {1}
    /\ pstat' = [pstat EXCEPT ![WorkerPid] = "gone"]
    /\ ppid' = Reparented(WorkerPid)
    /\ UNCHANGED <<pc, canceled, result, tree, alive, lastPoll, terminateCalls, queueReads, readLog,
                   feeder, pipe, sig>>

----------------------------------------------------------------------------
\* lib/process.py: terminate_tree(pid), called by the parent of the worker

\* tree = [parent, *parent.children(recursive=True)]
Snapshot(root) == <<root>> \o SeqOf(Descendants({root}, MaxProcs))

\* e.terminate() for every e of the tree: a process that has gone is skipped
\* (psutil.NoSuchProcess), a forceful kill already pending is not undone
Terminated(procs) ==
    [p \in Pids |-> IF p \in procs /\ pstat[p] = "running" /\ sig[p] = "none"
                    THEN "term" ELSE sig[p]]

\* e.kill() for every e of alive: a process that has gone is skipped
Killed(procs) ==
    [p \in Pids |-> IF p \in procs /\ pstat[p] = "running" THEN "kill" ELSE sig[p]]

\* psutil.wait_procs(procs=tree, timeout=2): the processes of the tree that
\* have not gone when the wait returns
WaitProcsAlive(procs) == {p \in procs : pstat[p] = "running"}

\* the two loops over the processes, each call inside try ... except
\* psutil.NoSuchProcess: pass, so that neither loop raises
\* (faulty variant: the terminate loop without the try statement)
TerminateLoopUncaught(procs) ==
    [sig |-> Terminated(procs), raised |-> \E p \in procs : pstat[p] = "gone"]
TerminateLoop(procs) == [sig |-> Terminated(procs), raised |-> FALSE]
KillLoop(procs) == [sig |-> Killed(procs), raised |-> FALSE]

TerminateTreeSnapshot ==
    /\ pc = "terminate"
    /\ pc' = "tt_signal"
    /\ terminateCalls' = Append(terminateCalls, WorkerPid)
    /\ tree' = Snapshot(WorkerPid)
    /\ UNCHANGED <<canceled, result, alive, lastPoll, queueReads, readLog,
                   wpc, feeder, pipe, exitcode, logged, pstat, ppid, sig>>

TerminateTreeSignal ==
    /\ pc = "tt_signal"
    /\ LET loop == TerminateLoop(Range(tree))
       IN  IF loop.raised
           THEN /\ pc' = "done"
                /\ result' = [kind |-> "NoSuchProcess"]
                /\ UNCHANGED sig
           ELSE /\ pc' = "tt_wait"
                /\ sig' = loop.sig
                /\ UNCHANGED result
    /\ UNCHANGED <<canceled, tree, alive, lastPoll, terminateCalls, queueReads, readLog,
                   wpc, feeder, pipe, exitcode, logged, pstat, ppid>>

\* wait_procs returns when every process of the tree has gone or when the
\* grace period of two seconds is over, whichever comes first
TerminateTreeWait ==
    /\ pc = "tt_wait"
    /\ pc' = "tt_kill"
    /\ alive' = WaitProcsAlive(Range(tree))
    /\ UNCHANGED <<canceled, result, tree, lastPoll, terminateCalls, queueReads, readLog,
                   wpc, feeder, pipe, exitcode, logged, pstat, ppid, sig>>

\* the kill loop; terminate_tree returns right after it
TerminateTreeKill ==
    /\ pc = "tt_kill"
    /\ LET loop == KillLoop(alive)
       IN  IF loop.raised
           THEN /\ pc' = "done"
                /\ result' = [kind |-> "NoSuchProcess"]
                /\ UNCHANGED sig
           ELSE /\ pc' = "tt_done"
                /\ sig' = loop.sig
                /\ UNCHANGED result
    /\ UNCHANGED <<canceled, tree, alive, lastPoll, terminateCalls, queueReads, readLog,
                   wpc, feeder, pipe, exitcode, logged, pstat, ppid>>

----------------------------------------------------------------------------
\* The operating system

\* a running process of the worker's tree starts a child (the browser that
\* run_local_server opens, and what the browser starts)
Spawn(q, p) ==
    /\ pstat[q] = "running"
    /\ pstat[p] = "absent"
    /\ p = Min({x \in Pids : pstat[x] = "absent"})
    /\ pstat' = [pstat EXCEPT ![p] = "running"]
    /\ ppid' = [ppid EXCEPT ![p] = q]
    /\ UNCHANGED <<pc, canceled, result, tree, alive, lastPoll, terminateCalls, queueReads, readLog,
                   wpc, feeder, pipe, exitcode, logged, sig>>

\* a process acts on the signal pending for it and ends; the worker's exit
\* code is then the negated signal number
SignalExit(p) ==
    /\ pstat[p] = "running"
    /\ sig[p] # "none"
    /\ pstat' = [pstat EXCEPT ![p] = "gone"]
    /\ ppid' = Reparented(p)
    /\ IF p = WorkerPid
       THEN /\ exitcode' = IF sig[p] = "kill" THEN {-9} ELSE {-15}
            /\ wpc' = "exited"
       ELSE UNCHANGED <<exitcode, wpc>>
    /\ UNCHANGED <<pc, canceled, result, tree, alive, lastPoll, terminateCalls, queueReads, readLog,
                   feeder, pipe, logged, sig>>

\* a descendant of the worker ends by itself
ChildExit(p) ==
    /\ p # WorkerPid
    /\ pstat[p] = "running"
    /\ pstat' = [pstat EXCEPT ![p] = "gone"]
    /\ ppid' = Reparented(p)
    /\ UNCHANGED <<pc, canceled, result, tree, alive, lastPoll, terminateCalls, queueReads, readLog,
                   wpc, feeder, pipe, exitcode, logged, sig>>

----------------------------------------------------------------------------
\* search.py: UrlInspection, the dispatcher

\* the values a cell of the selected column can hold: two URLs, the empty
\* string and a missing value
Urls == {"a", "b"}
Cells == Urls \cup {"", "NA"}

\* Google's quota of URL inspections per property and day
DailyQuota == 2000

\* max_workers = 10; if auth_port_object.get_is_pro() != True: max_workers = 1
\* (faulty variant: the limit of a caller without entitlement is not lowered)
MaxWorkersAlwaysTen(pro) == 10
MaxWorkers(pro) == IF pro # TRUE THEN 1 ELSE 10

N == Len(items)
Futures == DOMAIN fstate
Pending == {i \in Futures : fstate[i] = "pending"}
InFlight == {i \in Futures : fstate[i] = "running"}

\* inspect_one(url, property, credentials): the API's answer to the call made
\* for item i, which carries the inspected URL
Response(i) == [inspectionUrl |-> items[i], call |-> i]

\* build_row(url, api_response)
build_row(url, api_response) == [URL |-> url, api_response |-> api_response]

\* the checks of execute on the selected column, in the order of the code
\* (faulty variant: a table of exactly the quota is refused)
SeriesErrorAtQuota(series) ==
    IF \E i \in DOMAIN series : series[i] = "NA" THEN "missing values"
    ELSE IF \E i \in DOMAIN series : series[i] = "" THEN "empty string values"
    ELSE IF Len(series) >= DailyQuota THEN "too many URLs"
    ELSE "none"
SeriesError(series) ==
    IF \E i \in DOMAIN series : series[i] = "NA" THEN "missing values"
    ELSE IF \E i \in DOMAIN series : series[i] = "" THEN "empty string values"
    ELSE IF Len(series) > DailyQuota THEN "too many URLs"
    ELSE "none"

\* execute up to the call of executor.map, which submits one future per item:
\* the credentials of the port are parsed, then the selected column is checked
Execute ==
    /\ dpc = "idle"
    /\ IF parse_json(portCreds, clock).kind = "PermissionError"
       THEN /\ dpc' = "done"
            /\ dresult' = [kind |-> "PermissionError"]
            /\ fstate' = fstate
       ELSE IF SeriesError(items) # "none"
       THEN /\ dpc' = "done"
            /\ dresult' = [kind |-> "ValueError", what |-> SeriesError(items)]
            /\ fstate' = fstate
       ELSE /\ dpc' = "iter"
            /\ fstate' = [i \in 1..N |-> "pending"]
            /\ dresult' = dresult
    /\ UNCHANGED <<is_pro, items, rows, dcanceled, lateStarts, outOfOrder, dprogress,
                   invoked>>

\* a thread of the pool takes the oldest work item off the work queue and
\* calls inspect_one for it; the pool has at most max_workers threads
StartItem ==
    /\ Pending # {}
    /\ Cardinality(InFlight) < MaxWorkers(is_pro)
    /\ fstate' = [fstate EXCEPT ![Min(Pending)] = "running"]
    /\ lateStarts' = IF dpc \in {"shutdown", "unwind", "done"} THEN lateStarts + 1 ELSE lateStarts
    /\ invoked' = Append(invoked, Min(Pending))
    /\ UNCHANGED <<dpc, is_pro, items, rows, dcanceled, dresult, outOfOrder, dprogress>>

\* inspect_one returns the API's response
FinishOk(i) ==
    /\ i \in InFlight
    /\ fstate' = [fstate EXCEPT ![i] = "ok"]
    /\ outOfOrder' = (outOfOrder \/ \E j \in InFlight \cup Pending : j < i)
    /\ UNCHANGED <<dpc, is_pro, items, rows, dcanceled, dresult, lateStarts, dprogress,
                   invoked>>

\* inspect_one raises (an HTTP or transport error of the inspection call)
\* (faulty variant: the failed call is put back on the work queue)
FinishErrRetried(i) ==
    /\ i \in InFlight
    /\ fstate' = [fstate EXCEPT ![i] = "pending"]
    /\ outOfOrder' = outOfOrder
    /\ UNCHANGED <<dpc, is_pro, items, rows, dcanceled, dresult, lateStarts, dprogress,
                   invoked>>
FinishErr(i) ==
    /\ i \in InFlight
    /\ fstate' = [fstate EXCEPT ![i] = "err"]
    /\ outOfOrder' = (outOfOrder \/ \E j \in InFlight \cup Pending : j < i)
    /\ UNCHANGED <<dpc, is_pro, items, rows, dcanceled, dresult, lateStarts, dprogress,
                   invoked>>

\* the iterator of executor.map yields the results of the futures in the
\* order of submission: the next one is that of the item after the rows built
\* (faulty variant: results taken in completion order, as as_completed would)
NextFutureAsCompleted ==
    LET consumed == {rows[j].api_response.call : j \in DOMAIN rows}
        ready == {i \in Futures : fstate[i] = "ok" /\ i \notin consumed}
    IN  IF ready # {} THEN Max(ready) ELSE Len(rows) + 1
NextFuture == Len(rows) + 1

\* future.cancel() for every future still pending
\* (faulty variant: shutdown without cancel_futures leaves the futures pending)
CancelPendingNone(f) == f
CancelPending(f) == [i \in DOMAIN f |-> IF f[i] = "pending" THEN "cancelled" ELSE f[i]]

\* the numerator of the progress report: len(rows), the rows built
\* (faulty variant: the number of calls of inspect_one that have completed)
ProgressCountCompleted(built, f) == Cardinality({i \in DOMAIN f : f[i] \in {"ok", "err"}})
ProgressCount(built, f) == Len(built)

\* the loop body for a result, exec_context.is_canceled() being false: the row
\* is built for the URL at position len(rows) and appended, then
\* set_progress(len(rows) / len(inspection_url_series))
ConsumeOk ==
    /\ dpc = "iter"
    /\ NextFuture \in Futures
    /\ fstate[NextFuture] = "ok"
    /\ ~dcanceled
    /\ rows' = Append(rows, build_row(items[Len(rows) + 1], Response(NextFuture)))
    /\ dprogress' = Append(dprogress, [num |-> ProgressCount(rows', fstate), den |-> N])
    /\ UNCHANGED <<dpc, is_pro, items, fstate, dcanceled, dresult, lateStarts, outOfOrder,
                   invoked>>

\* the loop body for a result, exec_context.is_canceled() being true:
\* executor.shutdown(wait=True, cancel_futures=True) empties the work queue
\* (faulty variant: the cancellation is acted on without a result at hand)
ConsumeCanceledAtOnce ==
    /\ dpc = "iter"
    /\ dcanceled
    /\ fstate' = CancelPending(fstate)
    /\ dpc' = "shutdown"
    /\ UNCHANGED <<is_pro, items, rows, dcanceled, dresult, lateStarts, outOfOrder, dprogress,
                   invoked>>
ConsumeCanceled ==
    /\ dpc = "iter"
    /\ NextFuture \in Futures
    /\ fstate[NextFuture] = "ok"
    /\ dcanceled
    /\ fstate' = CancelPending(fstate)
    /\ dpc' = "shutdown"
    /\ UNCHANGED <<is_pro, items, rows, dcanceled, dresult, lateStarts, outOfOrder, dprogress,
                   invoked>>

\* shutdown(wait=True) has joined the threads of the pool:
\* raise RuntimeError("Execution was canceled.")
ShutdownJoined ==
    /\ dpc = "shutdown"
    /\ InFlight = {}
    /\ Pending = {}
    /\ dpc' = "done"
    /\ dresult' = [kind |-> "Canceled"]
    /\ UNCHANGED <<is_pro, items, fstate, rows, dcanceled, lateStarts, outOfOrder, dprogress,
                   invoked>>

\* the iterator raises the exception of the next future: the generator of
\* executor.map cancels the futures that are left
\* (faulty variant: the failure of an item is swallowed and a row built for it)
ConsumeErrIsolated ==
    /\ dpc = "iter"
    /\ NextFuture \in Futures
    /\ fstate[NextFuture] = "err"
    /\ rows' = Append(rows, build_row(items[Len(rows) + 1], [call |-> NextFuture]))
    /\ UNCHANGED <<dpc, is_pro, items, fstate, dcanceled, dresult, lateStarts, outOfOrder, dprogress,
                   invoked>>
ConsumeErr ==
    /\ dpc = "iter"
    /\ NextFuture \in Futures
    /\ fstate[NextFuture] = "err"
    /\ fstate' = CancelPending(fstate)
    /\ dpc' = "unwind"
    /\ UNCHANGED <<is_pro, items, rows, dcanceled, dresult, lateStarts, outOfOrder, dprogress,
                   invoked>>

\* the with block is left with the exception: shutdown(wait=True) joins the
\* threads, then the exception of the item propagates
UnwindJoined ==
    /\ dpc = "unwind"
    /\ InFlight = {}
    /\ Pending = {}
    /\ dpc' = "done"
    /\ dresult' = [kind |-> "ItemFailed", item |-> NextFuture]
    /\ UNCHANGED <<is_pro, items, fstate, rows, dcanceled, lateStarts, outOfOrder, dprogress,
                   invoked>>

\* the iterator is exhausted: the with block is left and the table returned
Return ==
    /\ dpc = "iter"
    /\ Len(rows) = N
    /\ InFlight = {}
    /\ dpc' = "done"
    /\ dresult' = [kind |-> "Table", rows |-> rows]
    /\ UNCHANGED <<is_pro, items, fstate, rows, dcanceled, lateStarts, outOfOrder, dprogress,
                   invoked>>

\* the user cancels the node while it executes
DispatchSetCanceled ==
    /\ dpc # "done"
    /\ ~dcanceled
    /\ dcanceled' = TRUE
    /\ UNCHANGED <<dpc, is_pro, items, fstate, rows, dresult, lateStarts, outOfOrder, dprogress,
                   invoked>>

----------------------------------------------------------------------------
\* search.py: SearchQuery.execute, the paginated fetcher

\* api_row_limit, the rowLimit of every page request
ApiRowLimit == 25000
\* the maximum row count of a caller without the entitlement
FreeRowLimit == 100000
\* most page requests of one execution in the model
MaxPages == 16

\* the values of the row_limit parameter the model draws from
RowLimits == {0, 1, 30000, 62000, FreeRowLimit, FreeRowLimit + 1, 150000}
\* the numbers of rows the endpoint answers a page request with
PageSizes == {0, 12000, ApiRowLimit}

\* the credentials a port object can carry and the hours at which it is used
PortCredentials == [has_refresh : BOOLEAN, expiry : 0..3]
Hours == 0..3

\* if get_is_pro() != True and (user_row_limit == 0 or user_row_limit > 100000):
\*     user_row_limit = 100000
EffectiveCapZeroKept(pro, requested) ==
    IF pro # TRUE /\ requested > FreeRowLimit THEN FreeRowLimit ELSE requested

EffectiveCap(pro, requested) ==
    IF pro # TRUE /\ (requested = 0 \/ requested > FreeRowLimit)
    THEN FreeRowLimit
    ELSE requested

\* len(rows)
RECURSIVE RowCount(_)
RowCount(segs) == IF segs = <<>> THEN 0 ELSE Head(segs).n + RowCount(Tail(segs))

\* rows[:k], for k > 0
RECURSIVE Slice(_, _)
Slice(segs, k) ==
    IF segs = <<>> \/ k <= 0 THEN <<>>
    ELSE IF Head(segs).n <= k
         THEN <<Head(segs)>> \o Slice(Tail(segs), k - Head(segs).n)
         ELSE <<[page |-> Head(segs).page, n |-> k]>>

\* rows += new_rows
\* (faulty variant: the new rows put in front, rows = new_rows + rows)
ExtendFront(segs, page, n) == IF n = 0 THEN segs ELSE <<[page |-> page, n |-> n]>> \o segs
Extend(segs, page, n) == IF n = 0 THEN segs ELSE Append(segs, [page |-> page, n |-> n])

\* lib.api_request_delay.get(i), in tenths of a second
\* (faulty variant: the delay grows without the upper limit)
ApiRequestDelayUncapped(i) == i
ApiRequestDelay(i) == Min({10, i})

\* the two tests at the end of a pass of the loop, in their order
\* (faulty variants: the cap test passed only beyond the cap; the short page
\* test first; no short page test)
AfterPageCapStrict(count, new, cap) ==
    IF cap # 0 /\ cap < count THEN "cap"
    ELSE IF new < ApiRowLimit THEN "short"
    ELSE "continue"

AfterPageShortFirst(count, new, cap) ==
    IF new < ApiRowLimit THEN "short"
    ELSE IF cap # 0 /\ cap <= count THEN "cap"
    ELSE "continue"

AfterPageNoShortTest(count, new, cap) ==
    IF cap # 0 /\ cap <= count THEN "cap" ELSE "continue"

AfterPage(count, new, cap) ==
    IF cap # 0 /\ cap <= count THEN "cap"
    ELSE IF new < ApiRowLimit THEN "short"
    ELSE "continue"

\* the condition of the warning after the loop
\* (faulty variants: never warned; warned whatever the entitlement)
UpsellDueNever(pro, count, requested) == FALSE
UpsellDueAnyone(pro, count, requested) ==
    /\ count = FreeRowLimit
    /\ (requested = 0 \/ requested > FreeRowLimit)

UpsellDue(pro, count, requested) ==
    /\ pro # TRUE
    /\ count = FreeRowLimit
    /\ (requested = 0 \/ requested > FreeRowLimit)

\* execute, up to the loop: the credentials are parsed, the cap is set
FetchExecute ==
    /\ fpc = "idle"
    /\ IF parse_json(portCreds, clock).kind = "PermissionError"
       THEN /\ fpc' = "done"
            /\ fresult' = [kind |-> "PermissionError"]
            /\ UNCHANGED user_row_limit
       ELSE /\ fpc' = "request"
            /\ user_row_limit' = EffectiveCap(is_pro, row_limit)
            /\ UNCHANGED fresult
    /\ fi' = 0
    /\ frows' = <<>>
    /\ UNCHANGED <<portCreds, clock, row_limit, pages, requests, progress, sleeps, warnings, bodies>>

\* start_row = i * api_row_limit
\* (faulty variant: the offset of the page after)
StartRowOneBased(i) == (i + 1) * ApiRowLimit
StartRow(i) == i * ApiRowLimit

\* (start_row / user_row_limit) if user_row_limit != 0 else 0.5, as a fraction
\* (faulty variants: the rows counted after the page that is about to be
\* requested; the division without the test for 0)
ProgressValueAfterPage(start_row, cap) ==
    IF cap # 0 THEN [num |-> start_row + ApiRowLimit, den |-> cap] ELSE [num |-> 1, den |-> 2]
ProgressValueNoZeroTest(start_row, cap) == [num |-> start_row, den |-> cap]
ProgressValue(start_row, cap) ==
    IF cap # 0 THEN [num |-> start_row, den |-> cap] ELSE [num |-> 1, den |-> 2]

\* get_request_body(row_limit, start_row): the two members that differ
\* between the requests of one execution
get_request_body(limit, start_row) == [rowLimit |-> limit, startRow |-> start_row]

\* start_row = i * api_row_limit; set_progress; the request of the page is sent
PageRequest ==
    /\ fpc = "request"
    /\ fi < MaxPages
    /\ LET start_row == StartRow(fi)
       IN  /\ progress' = Append(progress, ProgressValue(start_row, user_row_limit))
           /\ requests' = Append(requests, start_row)
           /\ bodies' = Append(bodies, get_request_body(ApiRowLimit, start_row))
    /\ fpc' = "await"
    /\ UNCHANGED <<portCreds, clock, row_limit, user_row_limit, fi, frows, pages, sleeps,
                   warnings, fresult>>

\* the page arrives with n rows; rows += new_rows; the cap test, the short page
\* test, or i += 1 and the sleep
PageResponse(n) ==
    /\ fpc = "await"
    /\ pages' = Append(pages, n)
    /\ LET all == Extend(frows, fi, n)
           branch == AfterPage(RowCount(all), n, user_row_limit)
       IN  CASE branch = "cap" ->
                  /\ frows' = Slice(all, user_row_limit)
                  /\ fpc' = "finish"
                  /\ UNCHANGED <<fi, sleeps>>
            []  branch = "short" ->
                  /\ frows' = all
                  /\ fpc' = "finish"
                  /\ UNCHANGED <<fi, sleeps>>
            []  OTHER ->
                  /\ frows' = all
                  /\ fi' = fi + 1
                  /\ sleeps' = Append(sleeps, ApiRequestDelay(fi + 1))
                  /\ fpc' = "request"
    /\ UNCHANGED <<portCreds, clock, row_limit, user_row_limit, requests, progress, warnings,
                   fresult, bodies>>

\* the request of the page raises: nothing in execute catches it
PageFailsRetried ==
    /\ fpc = "await"
    /\ fpc' = "request"
    /\ UNCHANGED <<portCreds, clock, row_limit, user_row_limit, fi, frows, pages, requests,
                   progress, sleeps, warnings, fresult, bodies>>

PageFails ==
    /\ fpc = "await"
    /\ fpc' = "done"
    /\ fresult' = [kind |-> "FetchFailed", start_row |-> fi * ApiRowLimit]
    /\ UNCHANGED <<portCreds, clock, row_limit, user_row_limit, fi, frows, pages, requests,
                   progress, sleeps, warnings, bodies>>

\* after the loop: service.close(), the warning, the table
FetchReturn ==
    /\ fpc = "finish"
    /\ fpc' = "done"
    /\ warnings' = IF UpsellDue(is_pro, RowCount(frows), row_limit)
                   THEN warnings + 1 ELSE warnings
    /\ fresult' = [kind |-> "Table", rows |-> frows]
    /\ UNCHANGED <<portCreds, clock, row_limit, user_row_limit, fi, frows, pages, requests,
                   progress, sleeps, bodies>>

----------------------------------------------------------------------------
\* search.py: SearchQuery.parse_response, get_selected_dimensions

\* most dimensions selected at once in the model
MaxDims == 2
\* most rows of one response in the model
MaxRows == 2

\* the dimension parameters, in the order get_selected_dimensions tests them
DimensionOrder == <<"date", "country", "device", "page", "query", "searchAppearance">>

\* the selected dimension names, a list in the order of the tests
get_selected_dimensions(selected) ==
    SelectSeq(DimensionOrder, LAMBDA dim : dim \in selected)

\* a dict of Python is a function on its keys; a field of a dict
Has(dict, f) == f \in DOMAIN dict

\* one row of the endpoint: variant v tells rows apart, the keys field (a list
\* of n dimension keys, each telling its position) is left out when n < 0
ApiRow(v, n) ==
    IF n < 0
    THEN [f \in {"clicks", "ctr"} |-> v]
    ELSE [f \in {"keys", "clicks", "ctr"} |->
             IF f = "keys" THEN [j \in 1..n |-> <<v, j>>] ELSE v]

\* the rows the endpoint may send for a request with n dimensions: the keys it
\* owes, and the shapes next to them
ApiRows(n) == {ApiRow(v, k) : v \in 0..1, k \in {-1, n - 1, n, n + 1}}

\* the responses: the rows field is omitted when there is no row
ApiResponses(n) ==
    {[f \in {"responseAggregationType"} |-> "auto"]}
    \cup {[f \in {"rows", "responseAggregationType"} |->
              IF f = "rows" THEN rs ELSE "auto"] :
          rs \in UNION {[1..k -> ApiRows(n)] : k \in 0..MaxRows}}

\* position of a name in a list of distinct names
IndexOf(s, x) == CHOOSE j \in 1..Len(s) : s[j] = x

\* del new_row["keys"] when the field is there
DropKeysNever(new_row) == new_row
DropKeys(new_row) == [f \in DOMAIN new_row \ {"keys"} |-> new_row[f]]

\* the body of the loop over the rows: the selected names take the keys by
\* position, the row's own fields are merged over them, the keys are dropped
parse_row(dimensions, row) ==
    IF Len(dimensions) > 0 /\ ~Has(row, "keys")
    THEN [kind |-> "KeyError"]
    ELSE IF Len(dimensions) > 0 /\ Len(row["keys"]) < Len(dimensions)
    THEN [kind |-> "IndexError"]
    ELSE LET named == [dim \in Range(dimensions) |->
                          row["keys"][IndexOf(dimensions, dim)]]
             updated == row @@ named
         IN [kind |-> "row", row |-> DropKeys(updated)]

\* parse_response up to the loop: no rows field, the empty list is returned
ParseResponse ==
    /\ rpc = "idle"
    /\ IF ~Has(response, "rows")
       THEN /\ rpc' = "done"
            /\ presult' = [kind |-> "list", rows |-> <<>>]
       ELSE /\ rpc' = "loop"
            /\ UNCHANGED presult
    /\ new_rows' = <<>>
    /\ UNCHANGED <<dimension, response>>

\* one iteration of the loop over api_response["rows"]
ParseRow ==
    /\ rpc = "loop"
    /\ Len(new_rows) < Len(response["rows"])
    /\ LET parsed == parse_row(get_selected_dimensions(dimension),
                               response["rows"][Len(new_rows) + 1])
       IN IF parsed.kind = "row"
          THEN /\ new_rows' = Append(new_rows, parsed.row)
               /\ UNCHANGED <<rpc, presult>>
          ELSE /\ rpc' = "done"
               /\ presult' = parsed
               /\ UNCHANGED new_rows
    /\ UNCHANGED <<dimension, response>>

\* return new_rows
ParseReturn ==
    /\ rpc = "loop"
    /\ Len(new_rows) = Len(response["rows"])
    /\ rpc' = "done"
    /\ presult' = [kind |-> "list", rows |-> new_rows]
    /\ UNCHANGED <<dimension, response, new_rows>>

----------------------------------------------------------------------------
\* lib/credentials.py: _get_free_port

\* range(0, 100)
PortAttempts == 100
\* randint(10000, 30000): both ends are included
PortLow == 10000
PortHigh == 30000
\* (faulty variant: the upper end is passed by one)
randintBeyond(a, b) == a..(b + 1)
randint(a, b) == a..b

\* the ports the model lets the generator sample: those at and next to the
\* two arguments of randint and one between them, as far as randint yields them
SampledPorts ==
    {p \in randint(PortLow, PortHigh) :
         p \in {PortLow - 1, PortLow, 20000, PortHigh - 1, PortHigh, PortHigh + 1}}

\* one pass of the loop: a port is sampled and probed by binding to it
ProbePortSkipsFirst(port, free) ==
    /\ gpc = "loop"
    /\ probes < PortAttempts
    /\ probes' = probes + 1
    /\ lastPort' = port
    /\ freeSeen' = (freeSeen \/ free)
    /\ IF free /\ probes > 0
       THEN /\ gpc' = "done"
            /\ portResult' = [kind |-> "port", port |-> port]
       ELSE UNCHANGED <<gpc, portResult>>

ProbePort(port, free) ==
    /\ gpc = "loop"
    /\ probes < PortAttempts
    /\ probes' = probes + 1
    /\ lastPort' = port
    /\ freeSeen' = (freeSeen \/ free)
    /\ IF free
       THEN /\ gpc' = "done"
            /\ portResult' = [kind |-> "port", port |-> port]
       ELSE UNCHANGED <<gpc, portResult>>

\* the loop is exhausted: raise RuntimeError("Can not find free port ...")
RaiseNoFreePort ==
    /\ gpc = "loop"
    /\ probes = PortAttempts
    /\ gpc' = "done"
    /\ portResult' = [kind |-> "RuntimeError"]
    /\ UNCHANGED <<probes, lastPort, freeSeen>>

----------------------------------------------------------------------------
\* lib/key_management.py, and search.py: SearchAuthenticator.execute

\* longest license key of the model
MaxKeyLen == 2
\* the characters of a key: a blank and a character that is no whitespace
Whitespace == {" "}
KeyChars == {" ", "k"}
Keys == UNION {[1..n -> KeyChars] : n \in 0..MaxKeyLen}

\* str.strip(): leading and trailing whitespace removed
RECURSIVE lstrip(_)
lstrip(s) == IF s # <<>> /\ Head(s) \in Whitespace THEN lstrip(Tail(s)) ELSE s
RECURSIVE rstrip(_)
rstrip(s) ==
    IF s # <<>> /\ s[Len(s)] \in Whitespace THEN rstrip(SubSeq(s, 1, Len(s) - 1)) ELSE s
strip(s) == rstrip(lstrip(s))

\* what requests.get can come back with: an exception, or a response with a
\* status code and a body; ok is {} when the JSON object has no such member
LicenseReplies ==
    {[kind |-> "exception"]}
    \cup {[kind |-> "response", status_code |-> s, json |-> FALSE, ok |-> {}] :
              s \in {200, 500}}
    \cup {[kind |-> "response", status_code |-> s, json |-> TRUE, ok |-> o] :
              s \in {200, 500}, o \in {{}, {TRUE}, {FALSE}}}

\* verify_key(key), given what requests.get came back with
verify_keyNoOkTest(reply) ==
    IF reply.kind = "exception"
    THEN [kind |-> "RuntimeError", message |-> "Can not reach the license server"]
    ELSE IF reply.status_code # 200
    THEN [kind |-> "RuntimeError", message |-> "responded unexpectedly"]
    ELSE IF ~reply.json
    THEN [kind |-> "RuntimeError", message |-> "invalid JSON"]
    ELSE [kind |-> "return", value |-> TRUE]

verify_key(reply) ==
    IF reply.kind = "exception"
    THEN [kind |-> "RuntimeError", message |-> "Can not reach the license server"]
    ELSE IF reply.status_code # 200
    THEN [kind |-> "RuntimeError", message |-> "responded unexpectedly"]
    ELSE IF ~reply.json
    THEN [kind |-> "RuntimeError", message |-> "invalid JSON"]
    ELSE IF reply.ok = {}
    THEN [kind |-> "KeyError", message |-> "ok"]
    ELSE IF reply.ok # {TRUE}
    THEN [kind |-> "RuntimeError", message |-> "does not appear to be valid"]
    ELSE [kind |-> "return", value |-> TRUE]

\* if len(self.key.strip()) != 0
KeyGivenUnstripped(k) == Len(k) # 0

KeyGiven(k) == Len(strip(k)) # 0

\* execute, up to the call of create_new: is_pro = False, and with a key the
\* license check, whose error nothing in execute catches
AuthExecuteSoft ==
    /\ apc = "idle"
    /\ IF KeyGiven(key)
       THEN \E reply \in LicenseReplies :
                LET v == verify_key(reply)
                IN  /\ licenseRequests' = Append(licenseRequests, strip(key))
                    /\ licenseReply' = reply
                    /\ auth_is_pro' = (v.kind = "return" /\ v.value)
                    /\ apc' = "create_new"
                    /\ UNCHANGED aresult
       ELSE /\ auth_is_pro' = FALSE
            /\ apc' = "create_new"
            /\ UNCHANGED <<licenseRequests, licenseReply, aresult>>
    /\ UNCHANGED <<key, expiration>>

AuthExecute ==
    /\ apc = "idle"
    /\ IF KeyGiven(key)
       THEN \E reply \in LicenseReplies :
                LET v == verify_key(reply)
                IN  /\ licenseRequests' = Append(licenseRequests, strip(key))
                    /\ licenseReply' = reply
                    /\ IF v.kind = "return"
                       THEN /\ auth_is_pro' = v.value
                            /\ apc' = "create_new"
                            /\ UNCHANGED aresult
                       ELSE /\ apc' = "done"
                            /\ aresult' = v
                            /\ UNCHANGED auth_is_pro
       ELSE /\ auth_is_pro' = FALSE
            /\ apc' = "create_new"
            /\ UNCHANGED <<licenseRequests, licenseReply, aresult>>
    /\ UNCHANGED <<key, expiration>>

\* credentials = lib.credentials.create_new(exec_context=exec_context)
AuthCreateNew ==
    /\ apc = "create_new"
    /\ CreateNew

\* strip_keys: the refresh token is to be removed unless the authentication
\* never expires
\* (faulty variant: nothing is removed)
strip_keysNone(exp) == {}
strip_keys(exp) == IF exp # "never" THEN {"refresh_token"} ELSE {}

\* credentials.to_json(strip=stripped): the members that are None and the
\* members named by strip are left out; has_refresh tells whether refresh_token is in
to_json(c, stripped) ==
    [has_refresh |-> c.refresh_token # "None" /\ "refresh_token" \notin stripped,
     expiry |-> c.expiry]

\* create_new returned or raised: set_available_props lists the sites, then
\* the port object is built
AuthReturn ==
    /\ apc = "create_new"
    /\ pc = "done"
    /\ apc' = "done"
    /\ IF result.kind = "Succeeded"
       THEN \E listed \in BOOLEAN :
                aresult' = IF listed
                           THEN [kind |-> "SearchAuthPortObject",
                                 credentials |-> to_json(result.bundle, strip_keys(expiration)),
                                 is_pro |-> auth_is_pro]
                           ELSE [kind |-> "HttpError"]
       ELSE aresult' = result
    /\ UNCHANGED <<key, expiration, auth_is_pro, licenseRequests, licenseReply>>

----------------------------------------------------------------------------
\* search.py: SearchAuthPortObject, the persisted port

\* the port objects of this revision, and those of the revision before the
\* entitlement, which have credentials only
PortObjects == [credentials : PortCredentials, is_pro : BOOLEAN]
LegacyPortObjects == [credentials : PortCredentials]

\* a Python value with its type, as isinstance sees it
Str(v) == [type |-> "str", value |-> v]
Dict(v) == [type |-> "dict", value |-> v]

\* pickle.dumps and pickle.loads
pickle_dumps(v) == [pickle |-> v]
pickle_loads(b) == b.pickle

\* serialize of this revision: the envelope with port_version 2
serializeUnversioned(obj) == pickle_dumps(Str(obj.credentials))

serialize(obj) ==
    pickle_dumps(Dict([port_version |-> 2, credentials |-> obj.credentials,
                       is_pro |-> obj.is_pro]))

\* serialize of the revision before (src/search/search.py): the bare credentials
serializeLegacy(obj) == pickle_dumps(Str(obj.credentials))

\* versions of envelopes this revision does not write
OtherVersions == {0, 1, 3}
\* storage this program never wrote: envelopes of other versions, and a
\* dictionary without a version
ForeignPayloads ==
    {Dict([port_version |-> v, credentials |-> c, is_pro |-> p]) :
         v \in OtherVersions, c \in PortCredentials, p \in BOOLEAN}
    \cup {Dict([credentials |-> c, is_pro |-> p]) : c \in PortCredentials, p \in BOOLEAN}

\* deserialize(spec, storage)
\* (faulty variant: a payload of version 1 read as entitled)
deserializeLegacyEntitled(b) ==
    LET payload == pickle_loads(b)
    IN  IF payload.type = "dict" /\ "port_version" \notin DOMAIN payload.value
        THEN [kind |-> "KeyError", message |-> "port_version"]
        ELSE LET version == IF payload.type = "dict" THEN payload.value.port_version ELSE 1
             IN  IF version = 2
                 THEN [kind |-> "SearchAuthPortObject",
                       credentials |-> payload.value.credentials,
                       is_pro |-> payload.value.is_pro]
                 ELSE IF version = 1
                 THEN [kind |-> "SearchAuthPortObject",
                       credentials |-> payload.value,
                       is_pro |-> TRUE]
                 ELSE [kind |-> "RuntimeError", message |-> "Unknown Auth Port version"]

deserialize(b) ==
    LET payload == pickle_loads(b)
    IN  IF payload.type = "dict" /\ "port_version" \notin DOMAIN payload.value
        THEN [kind |-> "KeyError", message |-> "port_version"]
        ELSE LET version == IF payload.type = "dict" THEN payload.value.port_version ELSE 1
             IN  IF version = 2
                 THEN [kind |-> "SearchAuthPortObject",
                       credentials |-> payload.value.credentials,
                       is_pro |-> payload.value.is_pro]
                 ELSE IF version = 1
                 THEN [kind |-> "SearchAuthPortObject",
                       credentials |-> payload.value,
                       is_pro |-> FALSE]
                 ELSE [kind |-> "RuntimeError", message |-> "Unknown Auth Port version"]

\* the workflow is saved: the port object is serialized by the revision that
\* made it
Serialize ==
    /\ spc = "object"
    /\ spc' = "stored"
    /\ storage' = IF "is_pro" \in DOMAIN portObject
                  THEN serialize(portObject)
                  ELSE serializeLegacy(portObject)
    /\ UNCHANGED <<portObject, loaded>>

\* the workflow is opened with this revision
Deserialize ==
    /\ spc = "stored"
    /\ spc' = "loaded"
    /\ loaded' = deserialize(storage)
    /\ UNCHANGED <<portObject, storage>>

\* the authenticator node has executed: the port object it returned is the
\* output of the node
Output ==
    /\ apc = "done"
    /\ aresult.kind = "SearchAuthPortObject"
    /\ spc = "none"
    /\ spc' = "object"
    /\ portObject' = [credentials |-> aresult.credentials, is_pro |-> aresult.is_pro]
    /\ UNCHANGED <<storage, loaded>>

\* a node downstream executes at hour h with the port object that was loaded:
\* get_credentials() and get_is_pro() are what it reads
Connect(h) ==
    /\ spc = "loaded"
    /\ loaded.kind = "SearchAuthPortObject"
    /\ spc' = "connected"
    /\ portCreds' = loaded.credentials
    /\ is_pro' = loaded.is_pro
    /\ clock' = h
    /\ UNCHANGED <<portObject, storage, loaded>>
    /\ UNCHANGED <<dpc, items, fstate, rows, dcanceled, dresult, lateStarts, outOfOrder,
                   dprogress, invoked>>
    /\ UNCHANGED <<fpc, row_limit, user_row_limit, fi, frows, pages, requests, bodies,
                   progress, sleeps, warnings, fresult>>

----------------------------------------------------------------------------
\* Specifications

BrokerIdle ==
    /\ pc = "idle"
    /\ canceled = FALSE
    /\ result = [kind |-> "none"]
    /\ tree = <<>>
    /\ alive = {}
    /\ lastPoll = [canceled |-> FALSE, alive |-> FALSE]
    /\ terminateCalls = <<>>
    /\ queueReads = 0
    /\ readLog = <<>>
    /\ wpc = "none"
    /\ feeder = <<>>
    /\ pipe = <<>>
    /\ exitcode = {}
    /\ logged = FALSE
    /\ pstat = [p \in Pids |-> "absent"]
    /\ ppid = [p \in Pids |-> 0]
    /\ sig = [p \in Pids |-> "none"]

DispatchIdle ==
    /\ dpc = "idle"
    /\ fstate = <<>>
    /\ rows = <<>>
    /\ dcanceled = FALSE
    /\ dresult = [kind |-> "none"]
    /\ lateStarts = 0
    /\ outOfOrder = FALSE
    /\ dprogress = <<>>
    /\ invoked = <<>>

\* the fetcher before execute, its parameters left open
FetchStart ==
    /\ fpc = "idle"
    /\ user_row_limit = 0
    /\ fi = 0
    /\ frows = <<>>
    /\ pages = <<>>
    /\ requests = <<>>
    /\ bodies = <<>>
    /\ progress = <<>>
    /\ sleeps = <<>>
    /\ warnings = 0
    /\ fresult = [kind |-> "none"]

\* credentials with a refresh token, as the authenticator issues them
FreshCredentials == [has_refresh |-> TRUE, expiry |-> 1]

FetchIdle ==
    /\ FetchStart
    /\ portCreds = FreshCredentials
    /\ clock = 0
    /\ row_limit = 0

PortIdle ==
    /\ gpc = "loop"
    /\ probes = 0
    /\ lastPort = 0
    /\ freeSeen = FALSE
    /\ portResult = [kind |-> "none"]

\* the authenticator before execute, its parameters left open
AuthStart ==
    /\ apc = "idle"
    /\ auth_is_pro = FALSE
    /\ licenseRequests = <<>>
    /\ licenseReply = [kind |-> "none"]
    /\ aresult = [kind |-> "none"]

AuthIdle ==
    /\ AuthStart
    /\ key = <<>>
    /\ expiration = "one_hour"

StoreIdle ==
    /\ spc = "none"
    /\ portObject = [kind |-> "none"]
    /\ storage = [kind |-> "none"]
    /\ loaded = [kind |-> "none"]

ResponseIdle ==
    /\ rpc = "none"
    /\ dimension = {}
    /\ response = [kind |-> "none"]
    /\ new_rows = <<>>
    /\ presult = [kind |-> "none"]

\* the authenticator node calls create_new once
BrokerInit ==
    /\ BrokerIdle
    /\ ResponseIdle
    /\ DispatchIdle
    /\ FetchIdle
    /\ PortIdle
    /\ AuthIdle
    /\ StoreIdle
    /\ is_pro = FALSE
    /\ items = <<>>

BrokerNext ==
    \/ (CreateNew /\ UNCHANGED outsideBroker)
    \/ (StartProcess /\ UNCHANGED outsideBroker)
    \/ (Poll /\ UNCHANGED outsideBroker)
    \/ (Sleep /\ UNCHANGED outsideBroker)
    \/ (JoinAndCheck /\ UNCHANGED outsideBroker)
    \/ (ReadQueue /\ UNCHANGED outsideBroker)
    \/ (TerminateTreeSnapshot /\ UNCHANGED outsideBroker)
    \/ (TerminateTreeSignal /\ UNCHANGED outsideBroker)
    \/ (TerminateTreeWait /\ UNCHANGED outsideBroker)
    \/ (TerminateTreeKill /\ UNCHANGED outsideBroker)
    \/ (RaiseCanceled /\ UNCHANGED outsideBroker)
    \/ (SetCanceled /\ UNCHANGED outsideBroker)
    \/ (WorkerPut /\ UNCHANGED outsideBroker)
    \/ (FeederFlush /\ UNCHANGED outsideBroker)
    \/ (WorkerReturn /\ UNCHANGED outsideBroker)
    \/ (WorkerRaise /\ UNCHANGED outsideBroker)
    \/ (\E q, p \in Pids : Spawn(q, p) /\ UNCHANGED outsideBroker)
    \/ (\E p \in Pids : SignalExit(p) /\ UNCHANGED outsideBroker)
    \/ (\E p \in Pids : ChildExit(p) /\ UNCHANGED outsideBroker)

BrokerSpec == BrokerInit /\ [][BrokerNext]_vars

\* the steps of the parent process inside create_new
ParentStep ==
    \/ CreateNew \/ StartProcess \/ Poll \/ Sleep \/ JoinAndCheck \/ ReadQueue
    \/ TerminateTreeSnapshot \/ TerminateTreeSignal \/ TerminateTreeWait
    \/ TerminateTreeKill \/ RaiseCanceled

\* the parent process keeps running; the user, the worker and the other
\* processes act or not as they please
BrokerLiveSpec == BrokerSpec /\ WF_vars(ParentStep /\ UNCHANGED outsideBroker)

\* the inspection node executes once on an input table of up to MaxItems rows
DispatchInit ==
    /\ BrokerIdle
    /\ ResponseIdle
    /\ DispatchIdle
    /\ FetchIdle
    /\ PortIdle
    /\ AuthIdle
    /\ StoreIdle
    /\ is_pro \in BOOLEAN
    /\ items \in UNION {[1..n -> Cells] : n \in 0..MaxItems}

DispatchNext ==
    \/ (Execute /\ UNCHANGED outsideDispatch)
    \/ (StartItem /\ UNCHANGED outsideDispatch)
    \/ (\E i \in Futures : FinishOk(i) /\ UNCHANGED outsideDispatch)
    \/ (\E i \in Futures : FinishErr(i) /\ UNCHANGED outsideDispatch)
    \/ (ConsumeOk /\ UNCHANGED outsideDispatch)
    \/ (ConsumeCanceled /\ UNCHANGED outsideDispatch)
    \/ (ShutdownJoined /\ UNCHANGED outsideDispatch)
    \/ (ConsumeErr /\ UNCHANGED outsideDispatch)
    \/ (UnwindJoined /\ UNCHANGED outsideDispatch)
    \/ (Return /\ UNCHANGED outsideDispatch)
    \/ (DispatchSetCanceled /\ UNCHANGED outsideDispatch)

DispatchSpec == DispatchInit /\ [][DispatchNext]_vars

\* the inspection node executes on a table with more rows than the pool of an
\* entitled caller has threads; every inspection call succeeds
PoolInit ==
    /\ BrokerIdle
    /\ ResponseIdle
    /\ DispatchIdle
    /\ FetchIdle
    /\ PortIdle
    /\ AuthIdle
    /\ StoreIdle
    /\ is_pro \in BOOLEAN
    /\ items = [i \in 1..(MaxWorkers(TRUE) + PoolSurplus) |-> "a"]

PoolNext ==
    \/ (Execute /\ UNCHANGED outsideDispatch)
    \/ (StartItem /\ UNCHANGED outsideDispatch)
    \/ (\E i \in Futures : FinishOk(i) /\ UNCHANGED outsideDispatch)
    \/ (ConsumeOk /\ UNCHANGED outsideDispatch)
    \/ (Return /\ UNCHANGED outsideDispatch)

PoolSpec == PoolInit /\ [][PoolNext]_vars

\* a table of n rows, all the URL "a" but the last cell
QuotaTable(n, last) == [i \in 1..n |-> IF i = n THEN last ELSE "a"]

\* the inspection node of a caller without the entitlement executes on a table
\* of as many rows as the daily quota, or of one more; the pool works on the
\* table while the main thread waits for the first result
QuotaInit ==
    /\ BrokerIdle
    /\ ResponseIdle
    /\ DispatchIdle
    /\ FetchIdle
    /\ PortIdle
    /\ AuthIdle
    /\ StoreIdle
    /\ is_pro = FALSE
    /\ items \in {QuotaTable(n, last) : n \in {DailyQuota, DailyQuota + 1}, last \in Cells}

QuotaNext ==
    \/ (Execute /\ UNCHANGED outsideDispatch)
    \/ (StartItem /\ UNCHANGED outsideDispatch)
    \/ (\E i \in InFlight : FinishOk(i) /\ UNCHANGED outsideDispatch)

QuotaSpec == QuotaInit /\ [][QuotaNext]_vars

\* the query node executes once: any entitlement, any of the requested caps,
\* the endpoint answers every page request with a page or an error
FetchInit ==
    /\ BrokerIdle
    /\ ResponseIdle
    /\ DispatchIdle
    /\ FetchStart
    /\ PortIdle
    /\ AuthIdle
    /\ StoreIdle
    /\ is_pro \in BOOLEAN
    /\ items = <<>>
    /\ portCreds = FreshCredentials
    /\ clock = 0
    /\ row_limit \in RowLimits

outsideFetch == <<brokerVars, dispatchVars, portVars, authVars, storeVars, responseVars>>

FetchNext ==
    \/ (FetchExecute /\ UNCHANGED outsideFetch)
    \/ (PageRequest /\ UNCHANGED outsideFetch)
    \/ (\E n \in PageSizes : PageResponse(n) /\ UNCHANGED outsideFetch)
    \/ (PageFails /\ UNCHANGED outsideFetch)
    \/ (FetchReturn /\ UNCHANGED outsideFetch)

FetchSpec == FetchInit /\ [][FetchNext]_vars

\* the input tables of the inspection node in a workflow with both nodes
SessionTables == UNION {[1..n -> Urls] : n \in 0..2}

\* a workflow runs the query node, then the inspection node, on the same port
SessionInit ==
    /\ BrokerIdle
    /\ ResponseIdle
    /\ DispatchIdle
    /\ FetchStart
    /\ PortIdle
    /\ AuthIdle
    /\ StoreIdle
    /\ is_pro \in BOOLEAN
    /\ items \in SessionTables
    /\ portCreds = FreshCredentials
    /\ clock = 0
    /\ row_limit \in RowLimits

SessionNext ==
    \/ FetchNext
    \/ (fpc = "done" /\ DispatchNext)

SessionSpec == SessionInit /\ [][SessionNext]_vars

\* the query node executes on a port object with any credentials, at any hour
ParseInit ==
    /\ BrokerIdle
    /\ ResponseIdle
    /\ DispatchIdle
    /\ FetchStart
    /\ PortIdle
    /\ AuthIdle
    /\ StoreIdle
    /\ is_pro = FALSE
    /\ items = <<>>
    /\ portCreds \in PortCredentials
    /\ clock \in Hours
    /\ row_limit = 1

ParseSpec == ParseInit /\ [][FetchNext]_vars

\* the worker searches a free port once; ports are taken or free as the
\* environment has it at each probe
PortInit ==
    /\ BrokerIdle
    /\ ResponseIdle
    /\ DispatchIdle
    /\ FetchIdle
    /\ PortIdle
    /\ AuthIdle
    /\ StoreIdle
    /\ is_pro = FALSE
    /\ items = <<>>

outsidePort == <<brokerVars, dispatchVars, fetchVars, authVars, storeVars, responseVars>>

PortNext ==
    \/ (\E port \in SampledPorts, free \in BOOLEAN :
            ProbePort(port, free) /\ UNCHANGED outsidePort)
    \/ (RaiseNoFreePort /\ UNCHANGED outsidePort)

PortSpec == PortInit /\ [][PortNext]_vars

\* the worker keeps running the loop of the search
PortLiveSpec == PortSpec /\ WF_vars(PortNext)

\* the authenticator node executes once, with any key and either expiration
AuthInit ==
    /\ BrokerIdle
    /\ ResponseIdle
    /\ DispatchIdle
    /\ FetchIdle
    /\ PortIdle
    /\ AuthStart
    /\ StoreIdle
    /\ is_pro = FALSE
    /\ items = <<>>
    /\ key \in Keys
    /\ expiration \in {"one_hour", "never"}

outsideAuth == <<dispatchVars, fetchVars, portVars, storeVars, responseVars>>

AuthNext ==
    \/ (AuthExecute /\ UNCHANGED <<brokerVars, outsideAuth>>)
    \/ (AuthCreateNew /\ UNCHANGED <<authVars, outsideAuth>>)
    \/ (AuthReturn /\ UNCHANGED <<brokerVars, outsideAuth>>)
    \/ (StartProcess /\ UNCHANGED outsideBroker)
    \/ (Poll /\ UNCHANGED outsideBroker)
    \/ (Sleep /\ UNCHANGED outsideBroker)
    \/ (JoinAndCheck /\ UNCHANGED outsideBroker)
    \/ (ReadQueue /\ UNCHANGED outsideBroker)
    \/ (TerminateTreeSnapshot /\ UNCHANGED outsideBroker)
    \/ (TerminateTreeSignal /\ UNCHANGED outsideBroker)
    \/ (TerminateTreeWait /\ UNCHANGED outsideBroker)
    \/ (TerminateTreeKill /\ UNCHANGED outsideBroker)
    \/ (RaiseCanceled /\ UNCHANGED outsideBroker)
    \/ (SetCanceled /\ UNCHANGED outsideBroker)
    \/ (WorkerPut /\ UNCHANGED outsideBroker)
    \/ (FeederFlush /\ UNCHANGED outsideBroker)
    \/ (WorkerReturn /\ UNCHANGED outsideBroker)
    \/ (WorkerRaise /\ UNCHANGED outsideBroker)
    \/ (\E q, p \in Pids : Spawn(q, p) /\ UNCHANGED outsideBroker)
    \/ (\E p \in Pids : SignalExit(p) /\ UNCHANGED outsideBroker)
    \/ (\E p \in Pids : ChildExit(p) /\ UNCHANGED outsideBroker)

AuthSpec == AuthInit /\ [][AuthNext]_vars

\* a port object of this or of the earlier revision is saved and opened, or
\* storage that this program did not write is opened
StoreInit ==
    /\ BrokerIdle
    /\ ResponseIdle
    /\ DispatchIdle
    /\ FetchIdle
    /\ PortIdle
    /\ AuthIdle
    /\ is_pro = FALSE
    /\ items = <<>>
    /\ loaded = [kind |-> "none"]
    /\ \/ /\ spc = "object"
          /\ portObject \in PortObjects \cup LegacyPortObjects
          /\ storage = [kind |-> "none"]
       \/ /\ spc = "stored"
          /\ portObject = [kind |-> "none"]
          /\ storage \in {pickle_dumps(p) : p \in ForeignPayloads}

outsideStore == <<brokerVars, dispatchVars, fetchVars, portVars, authVars, responseVars>>

StoreNext ==
    \/ (Serialize /\ UNCHANGED outsideStore)
    \/ (Deserialize /\ UNCHANGED outsideStore)

StoreSpec == StoreInit /\ [][StoreNext]_vars

\* a port object of this or of the earlier revision, with credentials that do
\* not expire, is saved with the workflow and opened; the query node and then
\* the inspection node execute on it
EntitlementInit ==
    /\ BrokerIdle
    /\ ResponseIdle
    /\ DispatchIdle
    /\ FetchStart
    /\ PortIdle
    /\ AuthIdle
    /\ is_pro \in BOOLEAN
    /\ items \in SessionTables
    /\ portCreds = FreshCredentials
    /\ clock = 0
    /\ row_limit \in RowLimits
    /\ spc = "object"
    /\ portObject \in {o \in PortObjects \cup LegacyPortObjects :
                            o.credentials = FreshCredentials}
    /\ storage = [kind |-> "none"]
    /\ loaded = [kind |-> "none"]

EntitlementNext ==
    \/ (Serialize /\ UNCHANGED outsideStore)
    \/ (Deserialize /\ UNCHANGED outsideStore)
    \/ (Connect(0) /\ UNCHANGED <<brokerVars, portVars, authVars, responseVars>>)
    \/ (spc = "connected" /\ FetchNext)
    \/ (spc = "connected" /\ fpc = "done" /\ DispatchNext)

EntitlementSpec == EntitlementInit /\ [][EntitlementNext]_vars

\* the authenticator node executes, its port object is saved with the workflow
\* and opened, and both nodes downstream start executing on it at some hour
ExpiryNext ==
    \/ AuthNext
    \/ (Output /\ UNCHANGED <<brokerVars, dispatchVars, fetchVars, portVars, authVars,
                               responseVars>>)
    \/ (Serialize /\ UNCHANGED outsideStore)
    \/ (Deserialize /\ UNCHANGED outsideStore)
    \/ (\E h \in Hours : Connect(h) /\ UNCHANGED <<brokerVars, portVars, authVars,
                                                     responseVars>>)
    \/ (spc = "connected" /\ FetchExecute /\ UNCHANGED outsideFetch)
    \/ (spc = "connected" /\ Execute /\ UNCHANGED outsideDispatch)

ExpirySpec == AuthInit /\ [][ExpiryNext]_vars

\* parse_response is called on one response, for any selection of dimensions
ResponseInit ==
    /\ BrokerIdle
    /\ DispatchIdle
    /\ FetchIdle
    /\ PortIdle
    /\ AuthIdle
    /\ StoreIdle
    /\ is_pro = FALSE
    /\ items = <<>>
    /\ rpc = "idle"
    /\ dimension \in {sel \in SUBSET Range(DimensionOrder) : Cardinality(sel) <= MaxDims}
    /\ response \in ApiResponses(Cardinality(dimension))
    /\ new_rows = <<>>
    /\ presult = [kind |-> "none"]

outsideResponse == <<brokerVars, dispatchVars, fetchVars, portVars, authVars, storeVars>>

ResponseNext ==
    \/ (ParseResponse /\ UNCHANGED outsideResponse)
    \/ (ParseRow /\ UNCHANGED outsideResponse)
    \/ (ParseReturn /\ UNCHANGED outsideResponse)

ResponseSpec == ResponseInit /\ [][ResponseNext]_vars

----------------------------------------------------------------------------
\* The authorization broker: create_new and terminate_tree

\* the latest pass of the poll loop saw the cancel signal
CancelObserved == lastPoll.canceled

\* C1: when the poll observes the cancel signal while the worker is alive,
\* create_new finishes with terminate_tree invoked once on the worker's pid,
\* no process of the snapshot running any more, and the Canceled error.
C1_CancelReapsTree ==
    (pc = "done" /\ CancelObserved /\ lastPoll.alive) =>
        /\ terminateCalls = <<WorkerPid>>
        /\ \A p \in Range(tree) : pstat[p] # "running"
        /\ result = [kind |-> "Canceled"]

\* C2: the parent reads the queue only after the worker has gone, been joined
\* and left exit code 0; with a non-zero exit code or an observed
\* cancellation the queue is never read.
C2_ReadOnlyAfterCleanExit ==
    /\ (pc = "read" \/ queueReads > 0) =>
          /\ pstat[WorkerPid] = "gone"
          /\ exitcode = {0}
          /\ ~CancelObserved
          /\ terminateCalls = <<>>
    /\ (exitcode \notin {{}, {0}} \/ CancelObserved) => queueReads = 0
    /\ queueReads <= 1

C2_Witness == queueReads = 1 /\ result.kind = "Succeeded"

\* C3: once the worker has exited with code 0 the pipe holds exactly one value
\* until the parent reads it, so every non-blocking read finds one value.
C3_ChannelHoldsValueAtRead ==
    /\ exitcode = {0} => (feeder = <<>> /\ Len(pipe) + queueReads = 1)
    /\ pc = "read" => Len(pipe) = 1
    /\ \A i \in DOMAIN readLog : readLog[i] = 1
    /\ result.kind # "QueueEmpty"

C3_Witness == readLog = <<1>> /\ exitcode = {0} /\ pipe = <<>>

\* C4 as stated, for a worker in which the flow or the port search raised and
\* which had exited with code 1 before the parent's last poll: create_new
\* fails with WorkerFailed carrying that code.
C4_NonZeroExitIsWorkerFailed ==
    (pc = "done" /\ exitcode = {1} /\ ~lastPoll.alive) =>
        result = [kind |-> "WorkerFailed", exit_code |-> {1}]

\* C4 as amended: with a non-zero exit code of the worker no bundle is
\* returned; create_new fails with WorkerFailed carrying that code when the
\* poll loop ended on the worker not being alive, and with Canceled when the
\* poll observed the cancel signal.
C4_WorkerFailedUnlessCanceled ==
    (pc = "done" /\ exitcode \notin {{}, {0}}) =>
        IF CancelObserved
        THEN result = [kind |-> "Canceled"]
        ELSE result = [kind |-> "WorkerFailed", exit_code |-> exitcode]

C4_Witness ==
    /\ pc = "done"
    /\ exitcode = {1}
    /\ logged
    /\ result = [kind |-> "WorkerFailed", exit_code |-> {1}]

\* the state of the broker's state machine
BrokerState ==
    IF result.kind = "Succeeded" THEN "Succeeded"
    ELSE IF result.kind = "Canceled" THEN "Canceled"
    ELSE IF result.kind # "none" THEN "Failed"
    ELSE IF pc = "idle" THEN "Idle"
    ELSE IF pc = "start" THEN "WorkerStarting"
    ELSE "WorkerRunning"

BrokerTransitions ==
    {<<"Idle", "WorkerStarting">>, <<"WorkerStarting", "WorkerRunning">>,
     <<"WorkerRunning", "Succeeded">>, <<"WorkerRunning", "Failed">>,
     <<"WorkerRunning", "Canceled">>}

\* C5: the broker moves only Idle -> WorkerStarting -> WorkerRunning -> one of
\* Succeeded, Failed, Canceled; an outcome once reached never changes, and a
\* bundle is present exactly in Succeeded, reached from WorkerRunning.
C5_BrokerStateMachine ==
    /\ [][\/ BrokerState' = BrokerState
          \/ <<BrokerState, BrokerState'>> \in BrokerTransitions]_vars
    /\ [][result.kind # "none" => (result' = result /\ pc' = "done")]_vars
    /\ []((BrokerState = "Succeeded") <=> ("bundle" \in DOMAIN result))
    /\ [](pc = "done" <=> BrokerState \in {"Succeeded", "Failed", "Canceled"})

C5_Witness ==
    /\ BrokerState = "Canceled"
    /\ \E p \in Pids : pstat[p] = "running"
    /\ pipe # <<>>

\* C6: whenever create_new has finished, the worker process is not running.
C6_WorkerReleasedAtReturn == pc = "done" => pstat[WorkerPid] # "running"

----------------------------------------------------------------------------
\* The dispatcher: UrlInspection.execute

Failing == {i \in Futures : fstate[i] = "err"}

\* C7: a successful dispatch returns one row per input item, and row i holds
\* the URL of item i and the response to the call made for item i.
C7_OutputOrder ==
    /\ \A i \in DOMAIN rows :
          rows[i] = build_row(items[i], [inspectionUrl |-> items[i], call |-> i])
    /\ dresult.kind = "Table" =>
          /\ Len(dresult.rows) = N
          /\ \A i \in 1..N : /\ dresult.rows[i].URL = items[i]
                             /\ dresult.rows[i].api_response.call = i
                             /\ dresult.rows[i].api_response.inspectionUrl = items[i]

C7_Witness ==
    /\ dresult.kind = "Table"
    /\ N >= 3
    /\ outOfOrder
    /\ items[1] # items[2]

\* C8: the number of inspection calls in flight never exceeds 10 for an
\* entitled caller and never exceeds 1 for any other caller.
C8_InFlightBound == Cardinality(InFlight) <= (IF is_pro THEN 10 ELSE 1)

C8_Witness == is_pro /\ Cardinality(InFlight) = 10 /\ Pending # {}

C10_AnyFailureIsReported ==
    \A i \in Futures :
        (dpc = "done" /\ Failing = {i}) => dresult = [kind |-> "ItemFailed", item |-> i]

\* C10 as amended: when the call of some item has failed the dispatch returns
\* no rows; it fails with the error of the first failing item in input order,
\* or with Canceled when the cancel poll reported canceled on an earlier item.
C10_FirstFailureOrCanceled ==
    (dpc = "done" /\ Failing # {}) =>
        \/ /\ dresult = [kind |-> "ItemFailed", item |-> Min(Failing)]
           /\ Len(rows) = Min(Failing) - 1
        \/ /\ dresult = [kind |-> "Canceled"]
           /\ dcanceled
           /\ Len(rows) + 1 < Min(Failing)

C10_Witness ==
    /\ dresult = [kind |-> "ItemFailed", item |-> 2]
    /\ Len(rows) = 1
    /\ ~dcanceled

----------------------------------------------------------------------------
\* The paginated fetcher: SearchQuery.execute

\* every page received so far was a full page
AllFull == \A j \in DOMAIN pages : pages[j] = 25000

\* the sum of a sequence of numbers
RECURSIVE Total(_)
Total(s) == IF s = <<>> THEN 0 ELSE Head(s) + Total(Tail(s))

\* C11: a caller without the entitlement, requested cap 0, only full pages of
\* 25,000 rows: the fetch stops after exactly 4 page requests, returns exactly
\* 100,000 rows and emits the upsell warning exactly once.
C11_FreeUnlimitedFullPages ==
    (~is_pro /\ row_limit = 0 /\ AllFull) =>
        /\ Len(requests) <= 4
        /\ warnings <= 1
        /\ Len(pages) = 4 => fpc \in {"finish", "done"}
        /\ (fpc = "done" /\ fresult.kind = "Table") =>
               /\ Len(requests) = 4
               /\ RowCount(fresult.rows) = 100000
               /\ warnings = 1

C11_Witness ==
    /\ ~is_pro /\ row_limit = 0 /\ AllFull
    /\ fpc = "done" /\ fresult.kind = "Table"
    /\ Len(requests) = 4 /\ warnings = 1

\* C12: a page with fewer rows than the page size is the last page requested;
\* with the pages [25000, 25000, 12000] and the cap not reached the fetch
\* issues exactly 3 page requests and returns all 62,000 rows.
C12_StopsAtShortPage ==
    /\ \A j \in DOMAIN pages :
           pages[j] < 25000 =>
               /\ j = Len(pages)
               /\ Len(requests) = j
               /\ fpc \in {"finish", "done"}
    /\ (/\ fpc = "done" /\ fresult.kind = "Table"
        /\ pages = <<25000, 25000, 12000>>
        /\ (user_row_limit = 0 \/ user_row_limit > 62000)) =>
           /\ requests = <<0, 25000, 50000>>
           /\ fresult.rows = <<[page |-> 0, n |-> 25000], [page |-> 1, n |-> 25000],
                               [page |-> 2, n |-> 12000]>>

C12_Witness ==
    /\ fpc = "done" /\ fresult.kind = "Table"
    /\ pages = <<25000, 25000, 12000>>
    /\ user_row_limit = 0
    /\ Len(requests) = 3 /\ RowCount(fresult.rows) = 62000

\* C13: the effective cap is 100,000 for a caller without the entitlement who
\* requested 0 or more than 100,000; in every other case it is the requested
\* cap, and an effective cap of 0 does not limit the rows.
C13_EffectiveCap ==
    (fpc # "idle" /\ fresult.kind # "PermissionError") =>
        /\ (~is_pro /\ (row_limit = 0 \/ row_limit > 100000)) => user_row_limit = 100000
        /\ (is_pro \/ row_limit \in 1..100000) => user_row_limit = row_limit
        /\ (user_row_limit = 0 /\ fresult.kind = "Table") =>
               /\ RowCount(fresult.rows) = Total(pages)
               /\ pages[Len(pages)] < 25000

C13_Witness ==
    /\ fpc = "done" /\ fresult.kind = "Table"
    /\ ~is_pro /\ row_limit = 0 /\ user_row_limit = 100000
    /\ pages = <<25000, 12000>>

\* C14: once the effective cap is not 0 and the rows received reach it, the
\* loop has stopped with exactly as many rows as the cap, whether or not the
\* page was short; the table never has more rows than a non-zero effective
\* cap, and never more than 100,000 for a caller without the entitlement.
C14_CapBeforeShortPage ==
    /\ (user_row_limit # 0 /\ Total(pages) >= user_row_limit) =>
           /\ fpc \in {"finish", "done"}
           /\ RowCount(frows) = user_row_limit
    /\ (fresult.kind = "Table" /\ user_row_limit # 0) =>
           RowCount(fresult.rows) <= user_row_limit
    /\ (fresult.kind = "Table" /\ ~is_pro) => RowCount(fresult.rows) <= 100000

C14_Witness ==
    /\ fpc = "done" /\ fresult.kind = "Table"
    /\ user_row_limit = 30000
    /\ pages = <<25000, 12000>>
    /\ RowCount(fresult.rows) = 30000

\* C15: a failed page request is the last request of the execution and no
\* offset is requested twice; the execution ends with the error, which
\* carries no rows.
C15_FailureAborts ==
    /\ \A j, k \in DOMAIN requests : j # k => requests[j] # requests[k]
    /\ fresult.kind = "FetchFailed" =>
           /\ fpc = "done"
           /\ DOMAIN fresult = {"kind", "start_row"}
           /\ Len(requests) = Len(pages) + 1
           /\ requests[Len(requests)] = fresult.start_row

C15_Witness ==
    /\ fresult.kind = "FetchFailed"
    /\ frows # <<>>
    /\ Len(requests) = 2

----------------------------------------------------------------------------
\* The free port search: _get_free_port

\* C16: the search probes at most 100 ports, returns the first port it finds
\* free, fails when all 100 probed ports were occupied, and always ends.
C16_FreePortSearch ==
    /\ [](probes <= 100)
    /\ [](portResult.kind = "none" => ~freeSeen)
    /\ [](portResult.kind = "port" => (freeSeen /\ portResult.port = lastPort))
    /\ [](portResult.kind = "RuntimeError" => (probes = 100 /\ ~freeSeen))
    /\ <>(gpc = "done" /\ portResult.kind \in {"port", "RuntimeError"})

C16_Witness == portResult.kind = "RuntimeError" /\ probes = 100

----------------------------------------------------------------------------
\* Credentials at the time of use: parse_json

\* C17: without a refresh token the credentials are rejected exactly when
\* expiry - now <= 0, so also when the expiry equals now; with a refresh
\* token they are accepted whatever the expiry.
C17_ExpiryCheckedWithoutRefresh ==
    fpc # "idle" =>
        /\ (~portCreds.has_refresh /\ portCreds.expiry < clock) =>
               fresult.kind = "PermissionError"
        /\ (~portCreds.has_refresh /\ portCreds.expiry = clock) =>
               fresult.kind = "PermissionError"
        /\ (~portCreds.has_refresh /\ portCreds.expiry > clock) =>
               fresult.kind # "PermissionError"
        /\ portCreds.has_refresh => fresult.kind # "PermissionError"
        /\ fresult.kind = "PermissionError" => (fpc = "done" /\ requests = <<>>)

C17_Witness ==
    /\ ~portCreds.has_refresh /\ portCreds.expiry = clock
    /\ fresult.kind = "PermissionError"

----------------------------------------------------------------------------
\* The license gate: verify_key and SearchAuthenticator.execute

\* the key is empty or has only whitespace
BlankKey == \A j \in DOMAIN key : key[j] = " "

\* the license endpoint answered 200 with a JSON object whose ok is true
ReplyOk ==
    /\ licenseReply.kind = "response"
    /\ licenseReply.status_code = 200
    /\ licenseReply.json
    /\ licenseReply.ok = {TRUE}

\* C18: with an empty or blank key no request is sent to the license endpoint
\* and the entitlement is false, also in the port object.
C18_BlankKeyNoLicenseRequest ==
    BlankKey =>
        /\ licenseRequests = <<>>
        /\ auth_is_pro = FALSE
        /\ aresult.kind = "SearchAuthPortObject" => aresult.is_pro = FALSE

C18_Witness ==
    /\ key = <<" ">>
    /\ aresult.kind = "SearchAuthPortObject"
    /\ aresult.is_pro = FALSE
    /\ licenseRequests = <<>>

\* C19: after the request for a key, the entitlement is true exactly when the
\* endpoint answered 200 with a JSON body whose ok is true; every other
\* answer ends the check with an error and the entitlement is never set to
\* false by it.
C19_VerifyTrueOnlyOnOk ==
    licenseRequests # <<>> =>
        /\ ReplyOk => (auth_is_pro = TRUE /\ aresult.kind \notin {"RuntimeError", "KeyError"})
        /\ ~ReplyOk => aresult.kind \in {"RuntimeError", "KeyError"}
        /\ auth_is_pro = FALSE => aresult.kind \in {"RuntimeError", "KeyError"}

C19_Witness ==
    /\ licenseRequests = <<<<"k">>>>
    /\ licenseReply.kind = "response" /\ licenseReply.status_code = 200
    /\ licenseReply.ok = {FALSE}
    /\ aresult.kind = "RuntimeError"

\* C20: when the license check of a key fails, execute ends with the error:
\* create_new is never called, the worker never exists, no port object is
\* produced and nothing continues with the entitlement false.
C20_LicenseFailureIsFatal ==
    /\ (licenseRequests # <<>> /\ ~ReplyOk) =>
           /\ apc = "done"
           /\ aresult.kind \in {"RuntimeError", "KeyError"}
           /\ pc = "idle"
           /\ wpc = "none"
           /\ pstat[WorkerPid] = "absent"
    /\ (aresult.kind = "SearchAuthPortObject" /\ aresult.is_pro = FALSE) =>
           licenseRequests = <<>>

C20_Witness ==
    /\ licenseRequests # <<>>
    /\ licenseReply.kind = "exception"
    /\ apc = "done" /\ aresult.kind = "RuntimeError"
    /\ pc = "idle"

----------------------------------------------------------------------------
\* The persisted port: SearchAuthPortObject.serialize and deserialize

\* C21: what serialize wrote is read back with the same credentials and the
\* same entitlement; the bare credentials written by the earlier revision are
\* read back with the entitlement false; an envelope whose version is neither
\* 1 nor 2 is refused with the error of the unknown version.
C21_PortRoundTrip ==
    spc = "loaded" =>
        /\ "is_pro" \in DOMAIN portObject =>
               loaded = [kind |-> "SearchAuthPortObject",
                         credentials |-> portObject.credentials,
                         is_pro |-> portObject.is_pro]
        /\ DOMAIN portObject = {"credentials"} =>
               loaded = [kind |-> "SearchAuthPortObject",
                         credentials |-> portObject.credentials,
                         is_pro |-> FALSE]
        /\ (/\ storage.pickle.type = "dict"
            /\ "port_version" \in DOMAIN storage.pickle.value
            /\ storage.pickle.value.port_version \notin {1, 2}) =>
               loaded.kind = "RuntimeError"

C21_Witness ==
    /\ spc = "loaded"
    /\ "is_pro" \in DOMAIN portObject
    /\ portObject.is_pro
    /\ loaded.kind = "SearchAuthPortObject"
    /\ loaded.is_pro

----------------------------------------------------------------------------
\* The input of the dispatcher

\* C22: a column with a missing value, with an empty string, or with more
\* than 2,000 cells is refused with a ValueError before any future exists and
\* before any call of inspect_one; a valid column of exactly 2,000 cells is
\* accepted.
C22_InputRejectedBeforeAnyCall ==
    LET refused == \/ \E i \in DOMAIN items : items[i] = "NA"
                   \/ \E i \in DOMAIN items : items[i] = ""
                   \/ Len(items) > 2000
    IN  dpc # "idle" =>
            /\ refused =>
                   /\ dpc = "done"
                   /\ dresult.kind = "ValueError"
                   /\ fstate = <<>>
                   /\ rows = <<>>
                   /\ lateStarts = 0
            /\ ~refused =>
                   /\ dresult.kind # "ValueError"
                   /\ DOMAIN fstate = 1..Len(items)

C22_Witness ==
    /\ Len(items) = 2001
    /\ \A i \in DOMAIN items : items[i] = "a"
    /\ dpc = "done"
    /\ dresult = [kind |-> "ValueError", what |-> "too many URLs"]

----------------------------------------------------------------------------
\* The process tree supervisor: terminate_tree

\* C23: once the terminate loop is over every process of the snapshot has the
\* terminate signal or had gone before it; a kill is sent only by the kill
\* loop, only to processes of the snapshot that wait_procs reported alive and
\* that were sent the terminate signal; neither loop ends terminate_tree with
\* an error when a process of the snapshot has gone.
C23_TerminateBeforeKill ==
    /\ [](pc \in {"tt_wait", "tt_kill"} =>
              \A p \in Range(tree) : sig[p] = "term" \/ pstat[p] = "gone")
    /\ [](pc = "tt_kill" => alive \subseteq Range(tree))
    /\ [][\A p \in Pids :
              (sig'[p] = "kill" /\ sig[p] # "kill") =>
                  (pc = "tt_kill" /\ p \in alive /\ sig[p] = "term")]_vars
    /\ [][(pc = "tt_signal" /\ pc' # pc) => pc' = "tt_wait"]_vars
    /\ [][(pc = "tt_kill" /\ pc' # pc) => pc' = "tt_done"]_vars
    /\ [](result.kind # "NoSuchProcess")

C23_Witness ==
    /\ pc = "tt_done"
    /\ \E p \in Range(tree) : pstat[p] = "gone" /\ sig[p] = "none"
    /\ \E p \in Range(tree) : sig[p] = "kill"

----------------------------------------------------------------------------
\* The range of the free port search

\* C24 as stated: every port sampled or returned lies in the half-open range
\* from 10000 to 30000, so that 30000 is never sampled.
C24_HalfOpenRange ==
    /\ lastPort # 0 => lastPort \in 10000..29999
    /\ portResult.kind = "port" => portResult.port \in 10000..29999

\* C24, amended: every port sampled or returned lies in the closed range from
\* 10000 to 30000; both ends can be sampled.
C24_ClosedRange ==
    /\ lastPort # 0 => lastPort \in 10000..30000
    /\ portResult.kind = "port" => portResult.port \in 10000..30000

C24_Witness == portResult = [kind |-> "port", port |-> 30000]

----------------------------------------------------------------------------
\* The page requests, the pacing, the warning and the progress of the fetcher

\* C25: the k-th page request (k = 0, 1, 2, ...) has the start row k * 25,000
\* and the row limit 25,000, no start row is requested twice, and a request
\* is sent only when every request before it has been answered.
C25_PagesStrictlySequential ==
    /\ Len(bodies) = Len(requests)
    /\ \A k \in DOMAIN bodies :
           bodies[k] = [rowLimit |-> 25000, startRow |-> (k - 1) * 25000]
    /\ \A j, k \in DOMAIN bodies : j # k => bodies[j].startRow # bodies[k].startRow
    /\ Len(requests) <= Len(pages) + 1
    /\ fpc = "await" <=> (Len(requests) = Len(pages) + 1 /\ fresult.kind = "none")

C25_Witness ==
    /\ fpc = "await"
    /\ Len(bodies) = 3
    /\ Len(pages) = 2
    /\ bodies[3].startRow = 50000

\* C26: the fetcher has slept once for every page after which it went on and
\* never after the page on which it stopped; the sleep before the request of
\* the page of index i is i tenths of a second up to index 10 and one second
\* from there on.
C26_SleepBetweenPages ==
    /\ \A i \in DOMAIN sleeps : sleeps[i] = IF i <= 10 THEN i ELSE 10
    /\ fpc = "request" => Len(sleeps) = Len(requests)
    /\ fpc = "await" => Len(sleeps) = Len(requests) - 1
    /\ (fpc \in {"finish", "done"} /\ requests # <<>>) => Len(sleeps) = Len(requests) - 1

C26_Witness ==
    /\ fpc = "done" /\ fresult.kind = "Table"
    /\ Len(requests) = 16
    /\ sleeps[1] = 1 /\ sleeps[5] = 5 /\ sleeps[10] = 10 /\ sleeps[15] = 10

\* C27: the warning is set at most once, and only for a caller without the
\* entitlement who requested 0 or more than 100,000 rows and whose fetch
\* stopped on the cap with exactly 100,000 rows; the table holds the rows the
\* loop left.
C27_UpsellOnlyWhenCapped ==
    /\ warnings <= 1
    /\ warnings = 1 =>
           /\ ~is_pro
           /\ (row_limit = 0 \/ row_limit > 100000)
           /\ row_limit \notin 1..100000
           /\ Total(pages) >= 100000
           /\ fresult.kind = "Table"
           /\ RowCount(fresult.rows) = 100000
    /\ fresult.kind = "Table" => fresult.rows = frows

C27_Witness ==
    /\ warnings = 1
    /\ row_limit = 100001
    /\ fresult.kind = "Table"

\* C28 as stated: every progress report follows the append of the rows of a
\* page, so that there are never more reports than pages received.
C28_ProgressAfterAppend ==
    /\ Len(progress) <= Len(pages)
    /\ \A k \in DOMAIN progress :
           user_row_limit # 0 =>
               progress[k] = [num |-> (k - 1) * 25000, den |-> user_row_limit]

\* C28, amended: progress is reported at the start of every pass of the loop,
\* before the page is requested: there is one report per request, none after
\* the last page; its value is start_row / user_row_limit for a cap other
\* than 0 and the constant 0.5 for the cap 0.
C28_ProgressBeforeRequest ==
    /\ Len(progress) = Len(requests)
    /\ \A k \in DOMAIN progress :
           progress[k] = IF user_row_limit # 0
                         THEN [num |-> (k - 1) * 25000, den |-> user_row_limit]
                         ELSE [num |-> 1, den |-> 2]
    /\ (fpc \in {"finish", "done"} /\ fresult.kind # "FetchFailed") =>
           Len(progress) = Len(pages)

C28_Witness ==
    /\ fpc = "await"
    /\ pages = <<>>
    /\ progress = <<[num |-> 0, den |-> 100000]>>

----------------------------------------------------------------------------
\* The progress of the dispatcher

\* the calls of inspect_one that have completed
Completed == {i \in Futures : fstate[i] \in {"ok", "err"}}

\* C29 as stated: every report is the number of calls of inspect_one
\* completed so far over the number of items.
C29_ProgressCountsCompleted ==
    [][dprogress' # dprogress =>
           dprogress' = Append(dprogress, [num |-> Cardinality(Completed'), den |-> N])]_vars

\* C29, amended: the k-th report is k over the number of items, one report
\* per row built, so the values increase strictly; the last report of a
\* dispatch that returns its table for a table with rows is 1.
C29_ProgressCountsRows ==
    /\ Len(dprogress) = Len(rows)
    /\ \A k \in DOMAIN dprogress : dprogress[k] = [num |-> k, den |-> Len(items)]
    /\ (dresult.kind = "Table" /\ items # <<>>) =>
           dprogress[Len(dprogress)] = [num |-> Len(items), den |-> Len(items)]

C29_Witness ==
    /\ dprogress = <<[num |-> 1, den |-> 3]>>
    /\ Cardinality(Completed) = 3

----------------------------------------------------------------------------
\* The wait of create_new

\* C30: the poll loop is left only for terminate_tree with the cancel signal
\* set or for the join with the worker gone; a poll that finds the cancel
\* signal goes to terminate_tree, and a sleep is followed by a poll; as long
\* as there is neither a cancel signal nor an exit of the worker create_new
\* does not finish, and once there is one of them create_new finishes.
C30_WaitEndsOnExitOrCancel ==
    /\ [][(pc \in {"poll", "sleep"} /\ pc' \notin {"poll", "sleep"}) =>
              \/ (pc' = "terminate" /\ canceled)
              \/ (pc' = "join" /\ pstat[WorkerPid] = "gone")]_vars
    /\ [][(pc = "poll" /\ canceled /\ pc' # pc) => pc' = "terminate"]_vars
    /\ [][(pc = "sleep" /\ pc' # pc) => pc' = "poll"]_vars
    /\ ([](~canceled /\ pstat[WorkerPid] # "gone") => [](pc # "done"))
    /\ ((canceled \/ pstat[WorkerPid] = "gone") ~> pc = "done")

C30_Witness ==
    /\ pc = "sleep"
    /\ canceled
    /\ pstat[WorkerPid] = "running"

----------------------------------------------------------------------------
\* Response parsing: parse_response

\* every row of the response carries as many keys as dimensions are selected
KeysOwed ==
    Has(response, "rows") =>
        \A k \in 1..Len(response["rows"]) :
            /\ Has(response["rows"][k], "keys")
            /\ Len(response["rows"][k]["keys"]) = Cardinality(dimension)

\* C31: parse_response returns one row per row of the response, in the same
\* order; in every returned row the j-th selected dimension name holds the j-th
\* key of the row, every other field of the row is copied unchanged and the
\* keys field is absent; a response without a rows field gives the empty list;
\* a response whose rows carry the keys of the selected dimensions is parsed
\* without an error.
C31_ParseResponse ==
    rpc = "done" =>
        /\ KeysOwed => presult.kind = "list"
        /\ presult.kind = "list" =>
              IF ~Has(response, "rows")
              THEN presult.rows = <<>>
              ELSE LET dims == get_selected_dimensions(dimension)
                   IN /\ Len(presult.rows) = Len(response["rows"])
                      /\ \A k \in 1..Len(presult.rows) :
                            LET out == presult.rows[k]
                                row == response["rows"][k]
                            IN /\ DOMAIN out = Range(dims) \cup (DOMAIN row \ {"keys"})
                               /\ \A j \in 1..Len(dims) : out[dims[j]] = row["keys"][j]
                               /\ \A f \in DOMAIN row \ {"keys"} : out[f] = row[f]

\* two different rows with two dimension keys each were parsed
C31_Witness ==
    /\ rpc = "done"
    /\ presult.kind = "list"
    /\ Cardinality(dimension) = 2
    /\ KeysOwed
    /\ Len(presult.rows) = 2
    /\ presult.rows[1] # presult.rows[2]

----------------------------------------------------------------------------
\* No retries: SearchQuery.execute and UrlInspection.execute

\* the elements of a list are pairwise different
Distinct(s) == \A a, b \in DOMAIN s : a # b => s[a] # s[b]

\* C32: no failed call is retried: in one fetch every page offset is requested
\* at most once, in one dispatch inspect_one is called at most once for every
\* item of the input, and exactly once for every item when the dispatch
\* returns its table.
C32_NoRetry ==
    /\ Distinct(requests)
    /\ Distinct(invoked)
    /\ Range(invoked) \subseteq 1..N
    /\ (dpc = "done" /\ dresult.kind = "Table") => Range(invoked) = 1..N

\* a fetch failed at its second page and a dispatch failed at an item with
\* both items called
C32_Witness ==
    /\ fresult.kind = "FetchFailed"
    /\ Len(requests) = 2
    /\ dresult.kind = "ItemFailed"
    /\ Len(invoked) = 2

----------------------------------------------------------------------------
\* Cancellation against a worker that has ended

\* the final pass of the poll loop found the cancel signal set and the worker
\* ended with exit code 0
CancelAfterCleanExit ==
    /\ lastPoll.canceled
    /\ ~lastPoll.alive
    /\ exitcode = {0}

\* C33: a poll tests the cancel signal before the worker's liveness: when the
\* signal is set and the worker has already ended with exit code 0 at that
\* poll, create_new goes on to terminate_tree on the worker's pid and ends
\* with Canceled; the queue is never read and no credentials are returned.
C33_CancelBeatsCleanExit ==
    CancelAfterCleanExit =>
        /\ pc \in {"terminate", "tt_signal", "tt_wait", "tt_kill", "tt_done", "done"}
        /\ queueReads = 0
        /\ result.kind \in {"none", "Canceled"}
        /\ pc \notin {"terminate"} => terminateCalls = <<WorkerPid>>
        /\ pc = "done" => result = [kind |-> "Canceled"]

\* create_new ended with Canceled and the credentials of the worker unread
C33_Witness ==
    /\ CancelAfterCleanExit
    /\ pc = "done"
    /\ Len(pipe) = 1
    /\ result = [kind |-> "Canceled"]
    /\ terminateCalls = <<WorkerPid>>

Capped == fpc # "idle" /\ user_row_limit # 0
Uncapped == fpc # "idle" /\ user_row_limit = 0

\* C35: with an effective cap c other than 0 a fetch issues at most
\* ceil(c / 25,000) page requests whatever the endpoint returns, at most 4 for
\* a caller without the entitlement; with the effective cap 0 the fetch has
\* left its loop exactly when the latest page was shorter than 25,000 rows or
\* a request failed, and after any number of full pages it is still in the
\* loop, waiting for a page or about to request the next one.
C35_RequestCount ==
    /\ Capped => (Len(requests) - 1) * ApiRowLimit < user_row_limit
    /\ (fpc # "idle" /\ ~is_pro) => (user_row_limit # 0 /\ Len(requests) <= 4)
    /\ Uncapped =>
          /\ is_pro
          /\ fpc \in {"finish", "done"} <=>
                \/ fresult.kind = "FetchFailed"
                \/ (pages # <<>> /\ pages[Len(pages)] < ApiRowLimit)
          /\ (AllFull /\ fresult.kind # "FetchFailed") =>
                \/ fpc = "request" /\ Len(requests) = Len(pages) /\ fi = Len(pages)
                \/ fpc = "await" /\ Len(requests) = Len(pages) + 1

\* an unlimited fetch has received MaxPages full pages and is still in its
\* loop, about to request the next page
C35_Witness ==
    /\ Uncapped
    /\ AllFull
    /\ Len(pages) = MaxPages
    /\ fpc = "request"

\* the number of rows of the pages received before the page of index p
RowsBefore(p) == Total(SubSeq(pages, 1, p))

\* the rows, segment by segment, stand where they stand in the concatenation
\* of the pages received: a segment holds the first rows of its page and
\* starts where the rows of the pages before its page end
PrefixOfPages(segs) ==
    \A j \in DOMAIN segs :
        /\ segs[j].page + 1 \in DOMAIN pages
        /\ segs[j].n >= 1
        /\ segs[j].n <= pages[segs[j].page + 1]
        /\ RowCount(SubSeq(segs, 1, j - 1)) = RowsBefore(segs[j].page)

\* C36: the rows a successful fetch returns are a prefix of the concatenation
\* of the received pages in offset order, without a row duplicated, moved or
\* skipped: all the rows of all the pages when the effective cap is 0 or was
\* not reached, exactly the first effective-cap rows otherwise.
C36_RowsArePrefixOfPages ==
    (fpc = "done" /\ fresult.kind = "Table") =>
        /\ PrefixOfPages(fresult.rows)
        /\ \A j \in DOMAIN pages : requests[j] = RowsBefore(j - 1)
        /\ RowCount(fresult.rows) =
              IF user_row_limit # 0 /\ user_row_limit <= Total(pages)
              THEN user_row_limit
              ELSE Total(pages)

\* the cap of 62,000 rows was reached inside the third page
C36_Witness ==
    /\ fpc = "done"
    /\ fresult.kind = "Table"
    /\ user_row_limit = 62000
    /\ pages = <<25000, 25000, 25000>>
    /\ Len(fresult.rows) = 3
    /\ fresult.rows[3] = [page |-> 2, n |-> 12000]

\* C37: with an effective cap other than 0 every progress value of the fetch
\* lies in [0, 1): a page is requested only at an offset strictly below the
\* effective cap, the first value is 0 and the values grow strictly from one
\* page to the next.
C37_ProgressBelowOne ==
    Capped =>
        /\ Len(progress) = Len(requests)
        /\ \A j \in DOMAIN progress :
              /\ requests[j] < user_row_limit
              /\ progress[j] = [num |-> requests[j], den |-> user_row_limit]
              /\ 0 <= progress[j].num
              /\ progress[j].num < progress[j].den
              /\ j = 1 => progress[j].num = 0
              /\ j > 1 => progress[j - 1].num < progress[j].num

\* the fourth page of a fetch capped at 100,000 rows was announced as 3/4
C37_Witness ==
    /\ Capped
    /\ user_row_limit = 100000
    /\ Len(progress) = 4
    /\ progress[4] = [num |-> 75000, den |-> 100000]

----------------------------------------------------------------------------
\* Expiry of a port object: SearchAuthenticator.execute and parse_json

\* the port in use was made to expire and its access token has expired
PortExpired == expiration # "never" /\ portCreds.expiry - clock <= 0

\* C38: the port object of the authenticator carries the refresh token exactly
\* when the expiration setting is 'never'; the fetcher and the dispatcher
\* therefore reject a port made with 'one hour' exactly when its expiry is
\* not after the time they parse it, and never reject a port made with
\* 'never' for its expiry.
C38_ExpiryFollowsSetting ==
    /\ aresult.kind = "SearchAuthPortObject" =>
          (aresult.credentials.has_refresh <=> expiration = "never")
    /\ spc = "connected" =>
          /\ portCreds = aresult.credentials
          /\ fpc # "idle" => (fresult.kind = "PermissionError" <=> PortExpired)
          /\ dpc # "idle" => (dresult.kind = "PermissionError" <=> PortExpired)

\* a port made with 'one hour' is used at the hour of its expiry: both nodes
\* have rejected it
C38_Witness ==
    /\ spc = "connected"
    /\ expiration = "one_hour"
    /\ portCreds.expiry = clock
    /\ fresult.kind = "PermissionError"
    /\ dresult.kind = "PermissionError"

----------------------------------------------------------------------------
\* The entitlement of a port object

\* the port in use was saved by the revision before the entitlement
LegacyPort == spc = "connected" /\ "is_pro" \notin DOMAIN portObject

\* C39: the fetcher and the dispatcher never modify the entitlement of the port
\* object they execute on, and a port object read from a payload of version 1
\* is not entitled: a fetch on it returns at most 100,000 rows and a dispatch
\* on it has at most one call of inspect_one in flight at a time.
C39_EntitlementIsFixed ==
    /\ [](spc = "connected" =>
            /\ is_pro = loaded.is_pro
            /\ loaded.is_pro = IF "is_pro" \in DOMAIN portObject
                               THEN portObject.is_pro ELSE FALSE)
    /\ [][spc = "connected" => (is_pro' = is_pro /\ loaded' = loaded)]_vars
    /\ [](LegacyPort =>
            /\ is_pro = FALSE
            /\ fresult.kind = "Table" => RowCount(fresult.rows) <= FreeRowLimit
            /\ Cardinality(InFlight) <= 1)

\* on a port of the earlier revision a fetch asked for 150,000 rows returned
\* 100,000, and the dispatch has one call in flight with an item waiting
C39_Witness ==
    /\ LegacyPort
    /\ row_limit = 150000
    /\ fresult.kind = "Table"
    /\ RowCount(fresult.rows) = FreeRowLimit
    /\ Cardinality(InFlight) = 1
    /\ Pending # {}

----------------------------------------------------------------------------
\* Where the dispatcher observes a cancellation

\* the loop over the results is running with the cancel signal set and a
\* result still to be consumed
CanceledInLoop == dpc = "iter" /\ dcanceled /\ Len(rows) < N

\* C40 as stated: once the cancel signal is set while a result is still to be
\* consumed, the loop is left through the cancellation only.
C40_CanceledWheneverSetEarly ==
    [][(CanceledInLoop /\ dpc' # "iter") => dpc' = "shutdown"]_vars

\* C40 as amended: the dispatcher acts on a cancellation only when it takes
\* the result of the next item in input order; a signal set after the last
\* result was consumed changes nothing and the table with all rows is
\* returned; a signal set while a result is still to be consumed stops the
\* rows from growing and ends the dispatch with Canceled when the call of the
\* next item returns, whatever later items have done, or with that item's
\* error when its call fails.
C40_CancelSeenAtNextResult ==
    /\ [][(dpc = "iter" /\ dpc' = "shutdown") =>
            (dcanceled /\ Len(rows) < N /\ fstate[Len(rows) + 1] = "ok")]_vars
    /\ [][(CanceledInLoop /\ dpc' # "iter") =>
            \/ dpc' = "shutdown" /\ fstate[Len(rows) + 1] = "ok"
            \/ dpc' = "unwind" /\ fstate[Len(rows) + 1] = "err"]_vars
    /\ [][dcanceled => rows' = rows]_vars
    /\ []((dpc = "done" /\ dresult.kind \notin {"ValueError", "PermissionError"}) =>
            IF Len(rows) = N
            THEN dresult = [kind |-> "Table", rows |-> rows]
            ELSE \/ dresult = [kind |-> "Canceled"] /\ dcanceled
                 \/ dresult = [kind |-> "ItemFailed", item |-> Len(rows) + 1])

\* the dispatch ended with Canceled at the first item although the calls of
\* the later items had completed before
C40_Witness ==
    /\ dresult = [kind |-> "Canceled"]
    /\ rows = <<>>
    /\ N >= 3
    /\ \A i \in Futures : fstate[i] = "ok"

====
